---- MODULE Spec2Model ----
(***************************************************************************)
(* Model of the record assistant's ingestion core:                         *)
(*   - SQLiteStorage (the record store wired in cmd/assistant/main.go),    *)
(*   - LocalVectorStorage with its bag-of-hashed-terms embedding,          *)
(*   - RecordIngestor.Ingest / RecordIngestor.Delete (the upsert),         *)
(*   - LocalSource.Scrape (producer goroutine) and                         *)
(*     LocalScraperHandler.Handle (consumer drain loop).                   *)
(*                                                                         *)
(* Texts are sequences of byte values.  Errors are sequences of message    *)
(* strings, outermost wrap first; the nil error is the empty sequence.     *)
(***************************************************************************)
EXTENDS Integers, Sequences, FiniteSets, TLC

VARIABLES
    store,      \* SQLiteStorage: the rows of table records, id -> Record
    index,      \* LocalVectorStorage.embeddings, recID -> RecordEmbedding
    last,       \* history: the last ingestor call, its inputs, result and pre-state
    allNil,     \* history: started from empty store and index, and every call so far returned nil
    ctxDone,    \* the context passed to Handle/Scrape is cancelled (timeout)
    walk,       \* the directory entries filepath.WalkDir visits, in order
    pos,        \* producer: position in walk of the entry being visited
    ppc,        \* producer goroutine: program counter
    pval,       \* producer: the value it is about to send
    recClosed,  \* recordChan has been closed
    errBuf,     \* errChan's buffer (capacity ErrChanCap)
    errClosed,  \* errChan has been closed
    hpc,        \* LocalScraperHandler.Handle: program counter
    srcIdx,     \* Handle: number of sources whose Scrape has been started
    hRecNil,    \* Handle: local recordChan has been set to nil
    hErrNil,    \* Handle: local errChan has been set to nil
    hrec,       \* Handle: the record received and not yet ingested
    recordCount,\* Handle: recordCount
    response,   \* Handle: the Response returned
    sent,       \* history: records whose send on recordChan completed
    ingested,   \* history: records passed to Ingestor.Ingest by Handle, with the result
    errsSeen,   \* history: the values Handle received from errChan
    numSources, \* len(l.sources)
    recs,       \* LocalStorage.recs: the in-memory cache, id -> Record
    files,      \* LocalStorage: the files <id>.json under basePath, id -> JSON document
    backend,    \* which Storage implementation the storage calls go to
    vectorNil,  \* the RecordService was built with a nil vector storage
    inflight    \* the concurrent Ingest calls: per caller its position, record and error

storeVars == <<store, index, last, allNil>>
fileVars == <<recs, files, backend, vectorNil, inflight>>
scrapeVars == <<ctxDone, walk, pos, ppc, pval, recClosed, errBuf, errClosed, hpc,
                srcIdx, hRecNil, hErrNil, hrec, recordCount, response, sent,
                ingested, errsSeen, numSources>>
vars == <<store, index, last, allNil, ctxDone, walk, pos, ppc, pval, recClosed,
          errBuf, errClosed, hpc, srcIdx, hRecNil, hErrNil, hrec, recordCount,
          response, sent, ingested, errsSeen, numSources, fileVars>>

---------------------------------------------------------------------------
(* Texts and records used as inputs.                                       *)

TxtEmpty == <<>>
\* "pay tax"
TxtPayTax == <<112, 97, 121, 32, 116, 97, 120>>
\* "Car tax"   (upper-case C; "car" and "pay" hash to the same slot)
TxtCarTax == <<67, 97, 114, 32, 116, 97, 120>>
\* "to cat9"   (a two-letter word, and a digit)
TxtToCat == <<116, 111, 32, 99, 97, 116, 57>>

WordPay == <<112, 97, 121>>
WordTax == <<116, 97, 120>>
WordCar == <<99, 97, 114>>
WordCat == <<99, 97, 116>>

\* "to"   (a word of two letters)
WordTo == <<116, 111>>

Queries == {WordPay, WordTax, WordCar, WordCat, WordTo, TxtEmpty}
\* the queries callers pass to RecordService.Search
ServiceQueries == {WordTax, TxtPayTax, TxtEmpty}

Ids == {"", "r1", "r2"}

Rec(id, type, content) == [ID |-> id, Type |-> type, Content |-> content]

Records ==
    { Rec("r1", "receipt", TxtPayTax),
      Rec("r1", "receipt", TxtCarTax),
      Rec("r1", "tax", TxtToCat),
      Rec("r2", "receipt", TxtToCat),
      Rec("r2", "", TxtCarTax),
      Rec("r2", "receipt", TxtEmpty),
      Rec("", "receipt", TxtPayTax) }

\* the records indexed in the vector storage: Records, and a third id
VectorRecords ==
    Records \cup {Rec("r3", "note", WordTax), Rec("r3", "note", TxtPayTax),
                  Rec("r3", "note", WordTo)}

NoRecord == Rec("-", "-", <<>>)

Nil == <<>>

EmptyMap == [x \in {} |-> x]
MapPut(m, k, v) == [x \in (DOMAIN m) \cup {k} |-> IF x = k THEN v ELSE m[x]]
MapDel(m, k) == [x \in (DOMAIN m) \ {k} |-> m[x]]

---------------------------------------------------------------------------
(* Records carrying every field of records.Record, and their rows in the   *)
(* records table.                                                         *)

MaxTime == 2
Times == 1..MaxTime
StorageIds == {"r1", "r2", "r3"}
Types == {"", "receipt", "tax"}

\* a value of a map[string]interface{}: a Go string, int or float64
GoString(v) == [t |-> "string", s |-> v, n |-> 0]
GoInt(v) == [t |-> "int", s |-> "", n |-> v]
GoFloat64(v) == [t |-> "float64", s |-> "", n |-> v]

\* a map[string]interface{}: nil, or its entries
GoMap(isNil, kv) == [isNil |-> isNil, kv |-> kv]
NilMeta == GoMap(TRUE, EmptyMap)
\* createTestRecord: {"test_key": "test_value", "number": 42}
TestMeta ==
    GoMap(FALSE, [k \in {"test_key", "number"} |->
                     IF k = "number" THEN GoInt(42) ELSE GoString("test_value")])

FullRec(id, type, content, created, updated, meta, tags) ==
    [ID |-> id, Type |-> type, Content |-> content, CreatedAt |-> created,
     UpdatedAt |-> updated, Metadata |-> meta, Tags |-> tags]

\* records.Record{}
ZeroRecord == FullRec("", "", <<>>, 0, 0, NilMeta, <<>>)

\* the records callers pass to Store and Update: per id a tagged receipt with
\* metadata, as createTestRecord builds it, and a later bare tax record; no
\* record has the id "r3"
StorageRecords ==
    {FullRec(id, "receipt", TxtPayTax, 1, 1, TestMeta, <<"test", "tag1">>) :
        id \in StorageIds \ {"r3"}}
    \cup {FullRec(id, "tax", TxtCarTax, MaxTime, MaxTime, NilMeta, <<>>) :
              id \in StorageIds \ {"r3"}}

\* RecordService.Ingest, "Initialize metadata map if nil"
WithMetadata(rec) ==
    IF rec.Metadata.isNil THEN [rec EXCEPT !.Metadata = GoMap(FALSE, EmptyMap)] ELSE rec

\* json.Marshal of one map value
JsonValue(v) ==
    IF v.t = "string" THEN [j |-> "string", s |-> v.s, n |-> 0]
    ELSE [j |-> "number", s |-> "", n |-> v.n]

\* json.Marshal(rec.Metadata): null for a nil map, else an object
MarshalMetadata(m) ==
    IF m.isNil THEN [j |-> "null", kv |-> EmptyMap]
    ELSE [j |-> "object", kv |-> [k \in DOMAIN m.kv |-> JsonValue(m.kv[k])]]

\* json.Unmarshal into an interface{}: a JSON number becomes a float64
GoValue(jv) == IF jv.j = "string" THEN GoString(jv.s) ELSE GoFloat64(jv.n)

\* json.Unmarshal(metadataJSON, &rec.Metadata) with rec.Metadata nil
UnmarshalMetadata(doc) ==
    IF doc.j = "null" THEN NilMeta
    ELSE GoMap(FALSE, [k \in DOMAIN doc.kv |-> GoValue(doc.kv[k])])

\* the column values of INSERT INTO records (id, type, content, metadata,
\* created_at, updated_at)
SqlRow(rec) ==
    [ID |-> rec.ID, Type |-> rec.Type, Content |-> rec.Content,
     Metadata |-> MarshalMetadata(rec.Metadata), CreatedAt |-> rec.CreatedAt,
     UpdatedAt |-> rec.UpdatedAt]

\* Scan of a row into var rec records.Record, then Unmarshal of the metadata
SqlScan(row) ==
    FullRec(row.ID, row.Type, row.Content, row.CreatedAt, row.UpdatedAt,
            UnmarshalMetadata(row.Metadata), <<>>)

---------------------------------------------------------------------------
(* LocalVectorStorage: the embedding.                                      *)

vectorSize == 100
\* 2^16: half the width of uint32
Half == 65536

\* strings.ToLower on ASCII bytes
ToLower(text) ==
    [i \in 1..Len(text) |-> IF text[i] >= 65 /\ text[i] <= 90 THEN text[i] + 32 ELSE text[i]]

\* the FieldsFunc predicate: r < 'a' || r > 'z' && (r < '0' || r > '9')
isSeparator(r) == r < 97 \/ (r > 122 /\ (r < 48 \/ r > 57))

RECURSIVE FieldsAcc(_, _, _)
FieldsAcc(s, cur, out) ==
    IF s = <<>>
    THEN IF cur = <<>> THEN out ELSE Append(out, cur)
    ELSE IF isSeparator(Head(s))
         THEN FieldsAcc(Tail(s), <<>>, IF cur = <<>> THEN out ELSE Append(out, cur))
         ELSE FieldsAcc(Tail(s), Append(cur, Head(s)), out)

\* strings.FieldsFunc(text, isSeparator)
FieldsFunc(text) == FieldsAcc(text, <<>>, <<>>)

\* mutant of extractTerms: words of every length are kept
extractTerms_KeepShort(text) ==
    LET words == FieldsFunc(ToLower(text))
    IN  [w \in {words[i] : i \in DOMAIN words} |->
            [num |-> Cardinality({i \in DOMAIN words : words[i] = w}),
             den |-> Len(words)]]

\* extractTerms: term -> frequency.  A frequency count/total is kept as the
\* pair [num |-> count, den |-> total]; every term of one text has the same den.
extractTerms(text) ==
    LET words == FieldsFunc(ToLower(text))
        kept == {words[i] : i \in {j \in DOMAIN words : Len(words[j]) > 2}}
    IN  [w \in kept |->
            [num |-> Cardinality({i \in DOMAIN words : words[i] = w}),
             den |-> Len(words)]]

\* simpleHash: hash = hash*31 + uint32(s[i]), in uint32.  The 32-bit value is
\* kept as two 16-bit halves [hi, lo] (hash = hi * Half + lo) so that the
\* wrap-around at 2^32 is exact.
RECURSIVE simpleHashFrom(_, _)
simpleHashFrom(hash, s) ==
    IF s = <<>> THEN hash
    ELSE LET lo == hash.lo * 31 + Head(s)
             hi == hash.hi * 31 + (lo \div Half)
         IN  simpleHashFrom([hi |-> hi % Half, lo |-> lo % Half], Tail(s))

simpleHash(s) == simpleHashFrom([hi |-> 0, lo |-> 0], s)

\* idx := int(hash) % vectorSize
hashSlot(s) ==
    LET hash == simpleHash(s)
    IN  ((hash.hi % vectorSize) * (Half % vectorSize) + (hash.lo % vectorSize)) % vectorSize

RECURSIVE SumNum(_, _)
SumNum(terms, S) ==
    IF S = {} THEN 0
    ELSE LET w == CHOOSE x \in S : TRUE
         IN  terms[w].num + SumNum(terms, S \ {w})

\* termsToVector.  Slot idx holds the sum of the frequencies of the terms that
\* hash to idx; the slots are kept as numerators over the text's common
\* denominator, so the vector is the code's vector up to the positive factor
\* 1/(den * magnitude) that the final normalisation applies to every slot.
termsToVector(terms) ==
    LET slot == [w \in DOMAIN terms |-> hashSlot(w)]
    IN  [idx \in 0..(vectorSize - 1) |->
            SumNum(terms, {w \in DOMAIN terms : slot[w] = idx})]

RECURSIVE DotFrom(_, _, _)
DotFrom(a, b, i) ==
    IF i >= vectorSize THEN 0 ELSE a[i] * b[i] + DotFrom(a, b, i + 1)

\* cosineSimilarity as the exact fraction num / sqrt(den2); 0 when the
\* dimensions differ or a magnitude is zero.
cosineSimilarity(a, b) ==
    IF DOMAIN a # DOMAIN b THEN [num |-> 0, den2 |-> 1]
    ELSE LET dot == DotFrom(a, b, 0)
             magA2 == DotFrom(a, a, 0)
             magB2 == DotFrom(b, b, 0)
         IN  IF magA2 = 0 \/ magB2 = 0 THEN [num |-> 0, den2 |-> 1]
             ELSE [num |-> dot, den2 |-> magA2 * magB2]

\* mutant of NewEmbedding: the vector is not built from the terms
NewEmbedding_NoVector(rec) ==
    [RecID |-> rec.ID, Terms |-> extractTerms(rec.Content), Record |-> rec,
     Vector |-> [idx \in 0..(vectorSize - 1) |-> 0]]

NewEmbedding(rec) ==
    LET terms == extractTerms(rec.Content)
    IN  [RecID |-> rec.ID, Terms |-> terms, Record |-> rec, Vector |-> termsToVector(terms)]

\* NewEmbedding and the query vector, tabulated once for the inputs of the model
EmbeddingTable ==
    [rec \in VectorRecords \cup StorageRecords \cup {WithMetadata(r) : r \in StorageRecords} |->
        NewEmbedding(rec)]
QueryVectorTable == [q \in Queries \cup ServiceQueries |-> termsToVector(extractTerms(q))]

\* mutant of VecIndex: the id is not checked
VecIndex_NoCheck(idx, rec) ==
    [index |-> MapPut(idx, rec.ID, EmbeddingTable[rec]), err |-> Nil]

\* mutant of VecIndex: an id that has an embedding keeps it
VecIndex_KeepOld(idx, rec) ==
    IF rec.ID = ""
    THEN [index |-> idx, err |-> <<"record ID is required">>]
    ELSE IF rec.ID \in DOMAIN idx THEN [index |-> idx, err |-> Nil]
    ELSE [index |-> MapPut(idx, rec.ID, EmbeddingTable[rec]), err |-> Nil]

\* LocalVectorStorage.Index
VecIndex(idx, rec) ==
    IF rec.ID = ""
    THEN [index |-> idx, err |-> <<"record ID is required">>]
    ELSE [index |-> MapPut(idx, rec.ID, EmbeddingTable[rec]), err |-> Nil]

\* mutant of VecDelete: a missing id is not an error
VecDelete_Silent(idx, recID) == [index |-> MapDel(idx, recID), err |-> Nil]

\* mutant of VecDelete: reports success and keeps the embedding
VecDelete_Keep(idx, recID) ==
    IF recID \notin DOMAIN idx
    THEN [index |-> idx, err |-> <<"record not found">>]
    ELSE [index |-> idx, err |-> Nil]

\* LocalVectorStorage.Delete
VecDelete(idx, recID) ==
    IF recID \notin DOMAIN idx
    THEN [index |-> idx, err |-> <<"record not found">>]
    ELSE [index |-> MapDel(idx, recID), err |-> Nil]

\* LocalVectorStorage.Search before sorting and limit: the ids of the
\* embeddings whose score against the query is > 0.
SearchHits(idx, query) ==
    IF DOMAIN idx = {} THEN {}
    ELSE LET queryVector == QueryVectorTable[query]
         IN  {id \in DOMAIN idx : cosineSimilarity(queryVector, idx[id].Vector).num > 0}

\* the orders in which the elements of a finite set can be listed
Orderings(S) ==
    {q \in [1..Cardinality(S) -> S] : \A i, j \in DOMAIN q : i # j => q[i] # q[j]}

\* cosineSimilarity of each query vector with each vector an embedding can
\* hold, tabulated once
SimilarityTable ==
    [q \in Queries \cup ServiceQueries |->
        [v \in {EmbeddingTable[rec].Vector : rec \in DOMAIN EmbeddingTable} |->
            cosineSimilarity(QueryVectorTable[q], v)]]

\* a.Score < b.Score for scores num / sqrt(den2) with num >= 0
ScoreLess(a, b) == a.num * a.num * b.den2 < b.num * b.num * a.den2

\* Search, the scoring loop: the embeddings in the order the range over the
\* map visits them, those with score > 0 appended as results
RECURSIVE Scored(_, _, _)
Scored(idx, query, order) ==
    IF order = <<>> THEN <<>>
    ELSE LET embedding == idx[Head(order)]
             score == SimilarityTable[query][embedding.Vector]
             rest == Scored(idx, query, Tail(order))
         IN  IF score.num > 0 THEN <<[Record |-> embedding.Record, Score |-> score]>> \o rest
             ELSE rest

\* the inner loop of the sort, from position j (counted from 1) to position last
RECURSIVE BubblePass(_, _, _)
BubblePass(results, j, lastJ) ==
    IF j > lastJ THEN results
    ELSE BubblePass(IF ScoreLess(results[j].Score, results[j + 1].Score)
                    THEN [results EXCEPT ![j] = results[j + 1], ![j + 1] = results[j]]
                    ELSE results,
                    j + 1, lastJ)

\* mutant of BubbleSort: the results stay in the order of the scoring loop
BubbleSort_None(results, i) == results

\* the outer loop of the sort, from pass i (counted from 0)
RECURSIVE BubbleSort(_, _)
BubbleSort(results, i) ==
    IF i >= Len(results) - 1 THEN results
    ELSE BubbleSort(BubblePass(results, 1, Len(results) - i - 1), i + 1)

\* mutant of ApplyLimit: a limit of zero truncates too
ApplyLimit_Zero(results, limit) ==
    IF limit >= 0 /\ Len(results) > limit THEN SubSeq(results, 1, limit) ELSE results

\* Search, "Apply limit"
ApplyLimit(results, limit) ==
    IF limit > 0 /\ Len(results) > limit THEN SubSeq(results, 1, limit) ELSE results

\* LocalVectorStorage.Search: the result lists it can return, one per order
\* in which the range over the embeddings map can visit them
Search(idx, query, limit) ==
    IF DOMAIN idx = {} THEN {<<>>}
    ELSE {ApplyLimit(BubbleSort(Scored(idx, query, order), 0), limit) :
             order \in Orderings(DOMAIN idx)}

---------------------------------------------------------------------------
(* SQLiteStorage.  fault: the statement fails in the database or because    *)
(* the context is done; a failed statement changes no row.                  *)

\* SQLiteStorage.Get
SqlGet(s, id, fault) ==
    IF fault THEN [rec |-> NoRecord, err |-> <<"failed to get record", "io">>]
    ELSE IF id \notin DOMAIN s THEN [rec |-> NoRecord, err |-> <<"record not found">>]
    ELSE [rec |-> s[id], err |-> Nil]

\* SQLiteStorage.Store: INSERT INTO records; id is the PRIMARY KEY
SqlStore(s, rec, fault) ==
    IF fault THEN [store |-> s, err |-> <<"failed to store record", "io">>]
    ELSE IF rec.ID \in DOMAIN s
    THEN [store |-> s, err |-> <<"failed to store record", "UNIQUE constraint failed">>]
    ELSE [store |-> MapPut(s, rec.ID, rec), err |-> Nil]

\* mutant of SqlDelete: the row is reported deleted and kept
SqlDelete_KeepRow(s, id, fault) ==
    IF fault THEN [store |-> s, err |-> <<"failed to delete record", "io">>]
    ELSE IF id \notin DOMAIN s THEN [store |-> s, err |-> <<"record not found">>]
    ELSE [store |-> s, err |-> Nil]

\* SQLiteStorage.Delete
SqlDelete(s, id, fault) ==
    IF fault THEN [store |-> s, err |-> <<"failed to delete record", "io">>]
    ELSE IF id \notin DOMAIN s THEN [store |-> s, err |-> <<"record not found">>]
    ELSE [store |-> MapDel(s, id), err |-> Nil]

---------------------------------------------------------------------------
(* RecordIngestor.  Each operator returns the store and index as the call   *)
(* leaves them, the error it returns, and the backend calls it made.        *)

\* which storage statement of the call fails, if any (at most one)
Faults ==
    {f \in [get : BOOLEAN, del : BOOLEAN, store : BOOLEAN] :
        Cardinality({k \in {"get", "del", "store"} : f[k]}) <= 1}
NoFaults == [get |-> FALSE, del |-> FALSE, store |-> FALSE]

Outcome(s, idx, err, calls) == [store |-> s, index |-> idx, err |-> err, calls |-> calls]

\* mutant of IngestStoreIndex: a failed Index rolls the Store back
IngestStoreIndex_Rollback(s, idx, record, f, calls) ==
    LET st == SqlStore(s, record, f.store)
    IN  IF st.err # Nil
        THEN Outcome(st.store, idx, <<"failed to store record">> \o st.err,
                     calls \o <<"Store">>)
        ELSE LET ix == VecIndex(idx, record)
             IN  IF ix.err # Nil
                 THEN Outcome(MapDel(st.store, record.ID), ix.index,
                              <<"failed to index record">> \o ix.err,
                              calls \o <<"Store", "Index", "Delete">>)
                 ELSE Outcome(st.store, ix.index, Nil, calls \o <<"Store", "Index">>)

\* Ingest, from "Store the record" on
IngestStoreIndex(s, idx, record, f, calls) ==
    LET st == SqlStore(s, record, f.store)
    IN  IF st.err # Nil
        THEN Outcome(st.store, idx, <<"failed to store record">> \o st.err,
                     calls \o <<"Store">>)
        ELSE LET ix == VecIndex(idx, record)
             IN  IF ix.err # Nil
                 THEN Outcome(st.store, ix.index, <<"failed to index record">> \o ix.err,
                              calls \o <<"Store", "Index">>)
                 ELSE Outcome(st.store, ix.index, Nil, calls \o <<"Store", "Index">>)

\* Ingest, the branch taken when Get found the record
IngestReplace(s, idx, record, f) ==
    LET del == SqlDelete(s, record.ID, f.del)
    IN  IF del.err # Nil
        THEN Outcome(del.store, idx,
                     <<"failed to delete existing record from storage">> \o del.err,
                     <<"Get", "Delete">>)
        ELSE LET vd == VecDelete(idx, record.ID)
             IN  IF vd.err # Nil
                 THEN Outcome(del.store, vd.index,
                              <<"failed to delete existing record from vector store">> \o vd.err,
                              <<"Get", "Delete", "VecDelete">>)
                 ELSE IngestStoreIndex(del.store, vd.index, record, f,
                                       <<"Get", "Delete", "VecDelete">>)

\* RecordIngestor.Ingest
Ingest(s, idx, record, f) ==
    IF SqlGet(s, record.ID, f.get).err = Nil
    THEN IngestReplace(s, idx, record, f)
    ELSE IngestStoreIndex(s, idx, record, f, <<"Get">>)

\* mutant of IngestorDelete: the index is deleted from before the store
IngestorDelete_IndexFirst(s, idx, id, f) ==
    LET vd == VecDelete(idx, id)
    IN  IF vd.err # Nil
        THEN Outcome(s, vd.index, <<"failed to delete from vector store">> \o vd.err,
                     <<"VecDelete">>)
        ELSE LET del == SqlDelete(s, id, f.del)
             IN  IF del.err # Nil
                 THEN Outcome(del.store, vd.index, <<"failed to delete record">> \o del.err,
                              <<"VecDelete", "Delete">>)
                 ELSE Outcome(del.store, vd.index, Nil, <<"VecDelete", "Delete">>)

\* RecordIngestor.Delete
IngestorDelete(s, idx, id, f) ==
    LET del == SqlDelete(s, id, f.del)
    IN  IF del.err # Nil
        THEN Outcome(del.store, idx, <<"failed to delete record">> \o del.err, <<"Delete">>)
        ELSE LET vd == VecDelete(idx, id)
             IN  IF vd.err # Nil
                 THEN Outcome(del.store, vd.index,
                              <<"failed to delete from vector store">> \o vd.err,
                              <<"Delete", "VecDelete">>)
                 ELSE Outcome(del.store, vd.index, Nil, <<"Delete", "VecDelete">>)

---------------------------------------------------------------------------
(* The ingestor called one call at a time.                                  *)

Call(op, rec, id, f, out) ==
    [op |-> op, rec |-> rec, id |-> id, faults |-> f, err |-> out.err, calls |-> out.calls,
     preStore |-> store, preIndex |-> index]

\* handler.Response; kind "none" while Handle has not returned
Response(kind, n, m) == [kind |-> kind, records_ingested |-> n, sources_scraped |-> m]
NoResponse == Response("none", 0, 0)

NoCall ==
    [op |-> "none", rec |-> NoRecord, id |-> "-", faults |-> NoFaults, err |-> Nil,
     calls |-> <<>>, preStore |-> EmptyMap, preIndex |-> EmptyMap]

InitStore ==
    /\ store = EmptyMap
    /\ index = EmptyMap
    /\ last = NoCall
    /\ allNil = TRUE
    /\ recs = EmptyMap
    /\ files = EmptyMap
    /\ backend = "sqlite"
    /\ vectorNil = FALSE
    /\ inflight = <<>>

InitIdle ==
    /\ ctxDone = FALSE
    /\ walk = <<>>
    /\ pos = 0
    /\ ppc = "idle"
    /\ pval = NoRecord
    /\ recClosed = FALSE
    /\ errBuf = <<>>
    /\ errClosed = FALSE
    /\ hpc = "idle"
    /\ srcIdx = 0
    /\ hRecNil = FALSE
    /\ hErrNil = FALSE
    /\ hrec = NoRecord
    /\ recordCount = 0
    /\ response = NoResponse
    /\ sent = <<>>
    /\ ingested = <<>>
    /\ errsSeen = <<>>
    /\ numSources = 0

Init == InitStore /\ InitIdle

\* a caller invokes RecordIngestor.Ingest(record)
DoIngest ==
    \E record \in Records, f \in Faults :
        LET out == Ingest(store, index, record, f)
        IN  /\ store' = out.store
            /\ index' = out.index
            /\ last' = Call("Ingest", record, record.ID, f, out)
            /\ allNil' = (allNil /\ out.err = Nil)
            /\ UNCHANGED <<scrapeVars, fileVars>>

\* a caller invokes RecordIngestor.Delete(id)
DoDelete ==
    \E id \in Ids, f \in Faults :
        LET out == IngestorDelete(store, index, id, f)
        IN  /\ store' = out.store
            /\ index' = out.index
            /\ last' = Call("Delete", NoRecord, id, f, out)
            /\ allNil' = (allNil /\ out.err = Nil)
            /\ UNCHANGED <<scrapeVars, fileVars>>

\* the process ends and main runs again: the SQLite file keeps its rows,
\* NewLocalVectorStorage starts with no embedding
Restart ==
    /\ index' = EmptyMap
    /\ store' = store
    /\ last' = [NoCall EXCEPT !.op = "Restart", !.preStore = store, !.preIndex = index]
    /\ allNil' = (allNil /\ store = EmptyMap)
    /\ UNCHANGED <<scrapeVars, fileVars>>

Next == DoIngest \/ DoDelete \/ Restart

Spec == Init /\ [][Next]_vars

---------------------------------------------------------------------------
(* Claims about the ingestor, checked under Spec.                           *)

LastIngest == last.op = "Ingest"
LastDelete == last.op = "Delete"
Count(calls, name) == Cardinality({i \in DOMAIN calls : calls[i] = name})

\* C1: after calls that all returned nil, starting from an empty store and an
\* empty index, the ids in the record store are exactly the ids that have an
\* embedding, and the embedding kept under an id is the embedding of that id.
C1_QuiescentConsistency ==
    allNil =>
        /\ DOMAIN store = DOMAIN index
        /\ \A id \in DOMAIN index : index[id].RecID = id

C1_Witness ==
    /\ allNil
    /\ LastDelete
    /\ DOMAIN store # {}
    /\ DOMAIN last.preStore = {"r1", "r2"}

\* The second of two successful Ingest calls for one id with different content:
\* before it the id was stored and indexed with the old record.
ReIngested ==
    /\ LastIngest
    /\ last.err = Nil
    /\ last.id \in DOMAIN last.preStore
    /\ last.id \in DOMAIN last.preIndex
    /\ last.preIndex[last.id].Record = last.preStore[last.id]
    /\ last.preStore[last.id].Content # last.rec.Content

OldTerms == DOMAIN extractTerms(last.preStore[last.id].Content)
NewTerms == DOMAIN extractTerms(last.rec.Content)
NewSlots == {hashSlot(w) : w \in NewTerms}

Replaced ==
    /\ last.id \in DOMAIN store
    /\ store[last.id] = last.rec
    /\ last.id \in DOMAIN index
    /\ index[last.id].Record = last.rec
    /\ index[last.id].Terms = extractTerms(last.rec.Content)
    /\ \A q \in Queries \cap (NewTerms \ OldTerms) : last.id \in SearchHits(index, q)

C3_MissingEmbeddingTolerated ==
    ( /\ LastIngest
      /\ last.faults = NoFaults
      /\ last.id # ""
      /\ last.id \in DOMAIN last.preStore
      /\ last.id \notin DOMAIN last.preIndex )
    => ( /\ last.err = Nil
         /\ last.id \in DOMAIN store
         /\ last.id \in DOMAIN index )

\* Index was called (so the store write had succeeded) and Ingest failed:
\* the index write failed.
IndexStageFailed == LastIngest /\ Count(last.calls, "Index") > 0 /\ last.err # Nil
\* Store was called, Index was not, and Ingest failed: the store write failed.
StoreStageFailed ==
    /\ LastIngest
    /\ Count(last.calls, "Store") > 0
    /\ Count(last.calls, "Index") = 0
    /\ last.err # Nil

\* C4: when the store write succeeds and the index write fails, Ingest returns
\* the index-stage error (a store-stage failure returns another one), the
\* record is stored and has no embedding, and Ingest made one Store call, one
\* Index call and no call after the failed Index.
C4_IndexFailureSurfaced ==
    /\ IndexStageFailed =>
          /\ last.err[1] = "failed to index record"
          /\ last.id \in DOMAIN store
          /\ store[last.id] = last.rec
          /\ last.id \notin DOMAIN index
          /\ Count(last.calls, "Store") = 1
          /\ Count(last.calls, "Index") = 1
          /\ \A i \in DOMAIN last.calls :
                last.calls[i] \in {"Delete", "VecDelete"} =>
                    \E j \in DOMAIN last.calls : j > i /\ last.calls[j] = "Store"
    /\ StoreStageFailed => last.err[1] = "failed to store record"

C4_Witness == IndexStageFailed /\ DOMAIN last.preStore # {}

\* C5: an Ingest of a record with an empty id, type or content returns an
\* error and leaves the store and the index as they were.
C5_ValidationPrecedesMutation ==
    (LastIngest /\ (last.rec.ID = "" \/ last.rec.Type = "" \/ last.rec.Content = <<>>))
    => (last.err # Nil /\ store = last.preStore /\ index = last.preIndex)

StoreDeleteFails == last.faults.del \/ last.id \notin DOMAIN last.preStore
IndexDeleteFails == ~StoreDeleteFails /\ last.id \notin DOMAIN last.preIndex

\* C6: Delete calls the store first and the index second; when the store
\* delete fails it returns an error and store and index are unchanged; when
\* the store delete succeeds and the index delete fails it returns an error
\* and the record stays deleted from the store.
C6_DeleteOrder ==
    LastDelete =>
        /\ last.calls[1] = "Delete"
        /\ StoreDeleteFails =>
              /\ last.err # Nil
              /\ last.calls = <<"Delete">>
              /\ store = last.preStore
              /\ index = last.preIndex
        /\ ~StoreDeleteFails => last.calls = <<"Delete", "VecDelete">>
        /\ IndexDeleteFails =>
              /\ last.err # Nil
              /\ store = MapDel(last.preStore, last.id)
              /\ last.id \notin DOMAIN store
              /\ index = last.preIndex

C6_Witness ==
    /\ LastDelete
    /\ IndexDeleteFails
    /\ last.id = "r1"
    /\ DOMAIN last.preIndex # {}

---------------------------------------------------------------------------
(* The scrape pipeline: LocalSource.Scrape's goroutine (producer) and       *)
(* LocalScraperHandler.Handle (consumer).  recordChan is unbuffered: a send *)
(* completes in the step in which Handle receives it.  errChan has a buffer *)
(* of ErrChanCap values.                                                    *)

ErrChanCap == 1
MaxWalk == 3
MaxSources == 1

ScrapeRecords == {Rec("r1", "receipt", TxtPayTax), Rec("r2", "receipt", TxtToCat)}

\* What WalkDir's callback meets at one path:
\*   dir         a directory (skipped)
\*   file        a file that is read and extracted to rec
\*   readErr     a file os.ReadFile fails on
\*   extractErr  a file the extractor fails on
\*   walkErr     a path WalkDir reports with err != nil
Entry(kind, rec) == [kind |-> kind, rec |-> rec]
Entries ==
    {Entry(k, NoRecord) : k \in {"dir", "readErr", "extractErr", "walkErr"}}
        \cup {Entry("file", r) : r \in ScrapeRecords}

Walks == UNION {[1..n -> Entries] : n \in 0..MaxWalk}

\* every storage statement fails once the context is done
CtxFaults == [get |-> TRUE, del |-> TRUE, store |-> TRUE]

InitScrape ==
    /\ ctxDone = FALSE
    /\ walk \in Walks
    /\ numSources \in 0..MaxSources
    /\ pos = 0
    /\ ppc = "idle"
    /\ pval = NoRecord
    /\ recClosed = FALSE
    /\ errBuf = <<>>
    /\ errClosed = FALSE
    /\ hpc = "loop"
    /\ srcIdx = 0
    /\ hRecNil = FALSE
    /\ hErrNil = FALSE
    /\ hrec = NoRecord
    /\ recordCount = 0
    /\ response = NoResponse
    /\ sent = <<>>
    /\ ingested = <<>>
    /\ errsSeen = <<>>

\* the deadline of the context passed to Handle and Scrape expires
Cancel ==
    /\ ~ctxDone
    /\ hpc # "returned"
    /\ ctxDone' = TRUE
    /\ UNCHANGED <<store, index, last, allNil, walk, pos, ppc, pval, recClosed, errBuf,
                   errClosed, hpc, srcIdx, hRecNil, hErrNil, hrec, recordCount,
                   response, sent, ingested, errsSeen, numSources, fileVars>>

(* Producer: the goroutine started by LocalSource.Scrape. *)

\* mutant of PVisit: the record channel has room, the send does not wait
PVisit_NoWait ==
    /\ ppc = "visit"
    /\ IF pos > Len(walk)
       THEN ppc' = "closeErr" /\ UNCHANGED <<pos, pval>>
       ELSE IF ctxDone
       THEN ppc' = "sendWalkErr" /\ UNCHANGED <<pos, pval>>
       ELSE IF walk[pos].kind = "walkErr"
       THEN ppc' = "sendWalkErr" /\ UNCHANGED <<pos, pval>>
       ELSE IF walk[pos].kind = "dir"
       THEN ppc' = "visit" /\ pos' = pos + 1 /\ UNCHANGED pval
       ELSE IF walk[pos].kind \in {"readErr", "extractErr"}
       THEN ppc' = "sendErr" /\ UNCHANGED <<pos, pval>>
       ELSE ppc' = "visit" /\ pval' = walk[pos].rec /\ pos' = pos + 1
    /\ UNCHANGED <<store, index, last, allNil, ctxDone, walk, recClosed, errBuf, errClosed,
                   hpc, srcIdx, hRecNil, hErrNil, hrec, recordCount, response, sent,
                   ingested, errsSeen, numSources, fileVars>>

\* WalkDir calls the callback for the next path, or returns nil after the last
PVisit ==
    /\ ppc = "visit"
    /\ IF pos > Len(walk)
       THEN ppc' = "closeErr" /\ UNCHANGED <<pos, pval>>
       ELSE IF ctxDone
       THEN ppc' = "sendWalkErr" /\ UNCHANGED <<pos, pval>>
       ELSE IF walk[pos].kind = "walkErr"
       THEN ppc' = "sendWalkErr" /\ UNCHANGED <<pos, pval>>
       ELSE IF walk[pos].kind = "dir"
       THEN ppc' = "visit" /\ pos' = pos + 1 /\ UNCHANGED pval
       ELSE IF walk[pos].kind \in {"readErr", "extractErr"}
       THEN ppc' = "sendErr" /\ UNCHANGED <<pos, pval>>
       ELSE ppc' = "sendRec" /\ pval' = walk[pos].rec /\ UNCHANGED pos
    /\ UNCHANGED <<store, index, last, allNil, ctxDone, walk, recClosed, errBuf, errClosed,
                   hpc, srcIdx, hRecNil, hErrNil, hrec, recordCount, response, sent,
                   ingested, errsSeen, numSources, fileVars>>

\* mutant of PSendErr: the callback returns the error, which ends the walk
PSendErr_Abort ==
    /\ ppc = "sendErr"
    /\ Len(errBuf) < ErrChanCap
    /\ errBuf' = Append(errBuf, walk[pos].kind)
    /\ pos' = pos + 1
    /\ ppc' = "closeErr"
    /\ UNCHANGED <<store, index, last, allNil, ctxDone, walk, pval, recClosed, errClosed,
                   hpc, srcIdx, hRecNil, hErrNil, hrec, recordCount, response, sent,
                   ingested, errsSeen, numSources, fileVars>>

\* errChan <- "failed to read file" / "failed to extract record"; return nil
PSendErr ==
    /\ ppc = "sendErr"
    /\ Len(errBuf) < ErrChanCap
    /\ errBuf' = Append(errBuf, walk[pos].kind)
    /\ pos' = pos + 1
    /\ ppc' = "visit"
    /\ UNCHANGED <<store, index, last, allNil, ctxDone, walk, pval, recClosed, errClosed,
                   hpc, srcIdx, hRecNil, hErrNil, hrec, recordCount, response, sent,
                   ingested, errsSeen, numSources, fileVars>>

\* mutant of PSendWalkErr: the walk error is dropped
PSendWalkErr_Silent ==
    /\ ppc = "sendWalkErr"
    /\ ppc' = "closeErr"
    /\ UNCHANGED <<store, index, last, allNil, ctxDone, walk, pos, pval, recClosed, errBuf,
                   errClosed, hpc, srcIdx, hRecNil, hErrNil, hrec, recordCount, response,
                   sent, ingested, errsSeen, numSources, fileVars>>

\* WalkDir returned err != nil: errChan <- "failed to walk directory"
PSendWalkErr ==
    /\ ppc = "sendWalkErr"
    /\ Len(errBuf) < ErrChanCap
    /\ errBuf' = Append(errBuf, "walkErr")
    /\ ppc' = "closeErr"
    /\ UNCHANGED <<store, index, last, allNil, ctxDone, walk, pos, pval, recClosed,
                   errClosed, hpc, srcIdx, hRecNil, hErrNil, hrec, recordCount, response,
                   sent, ingested, errsSeen, numSources, fileVars>>

\* defer close(errChan): the deferred call registered last runs first
PCloseErr ==
    /\ ppc = "closeErr"
    /\ errClosed' = TRUE
    /\ ppc' = "closeRec"
    /\ UNCHANGED <<store, index, last, allNil, ctxDone, walk, pos, pval, recClosed, errBuf,
                   hpc, srcIdx, hRecNil, hErrNil, hrec, recordCount, response, sent,
                   ingested, errsSeen, numSources, fileVars>>

\* defer close(recordChan)
PCloseRec ==
    /\ ppc = "closeRec"
    /\ recClosed' = TRUE
    /\ ppc' = "done"
    /\ UNCHANGED <<store, index, last, allNil, ctxDone, walk, pos, pval, errBuf, errClosed,
                   hpc, srcIdx, hRecNil, hErrNil, hrec, recordCount, response, sent,
                   ingested, errsSeen, numSources, fileVars>>

(* Consumer: LocalScraperHandler.Handle. *)

\* for _, src := range l.sources: Scrape the next source, or return success
HLoop ==
    /\ hpc = "loop"
    /\ IF srcIdx = numSources
       THEN /\ hpc' = "returned"
            /\ response' = Response("success", recordCount, numSources)
            /\ UNCHANGED <<srcIdx, pos, ppc, recClosed, errBuf, errClosed, hRecNil, hErrNil>>
       ELSE /\ srcIdx' = srcIdx + 1
            /\ pos' = 1
            /\ ppc' = "visit"
            /\ recClosed' = FALSE
            /\ errBuf' = <<>>
            /\ errClosed' = FALSE
            /\ hRecNil' = FALSE
            /\ hErrNil' = FALSE
            /\ hpc' = "select"
            /\ UNCHANGED response
    /\ UNCHANGED <<store, index, last, allNil, ctxDone, walk, pval, hrec, recordCount,
                   sent, ingested, errsSeen, numSources, fileVars>>

\* case record, ok := <-recordChan with ok: the producer's send completes
HRecvRecord ==
    /\ hpc = "select"
    /\ ~hRecNil
    /\ ppc = "sendRec"
    /\ hrec' = pval
    /\ sent' = Append(sent, pval)
    /\ pos' = pos + 1
    /\ ppc' = "visit"
    /\ hpc' = "ingest"
    /\ UNCHANGED <<store, index, last, allNil, ctxDone, walk, pval, recClosed, errBuf,
                   errClosed, srcIdx, hRecNil, hErrNil, recordCount, response, ingested,
                   errsSeen, numSources, fileVars>>

\* case record, ok := <-recordChan with !ok: recordChan = nil; continue
HRecvRecordClosed ==
    /\ hpc = "select"
    /\ ~hRecNil
    /\ recClosed
    /\ hRecNil' = TRUE
    /\ UNCHANGED <<store, index, last, allNil, ctxDone, walk, pos, ppc, pval, recClosed,
                   errBuf, errClosed, hpc, srcIdx, hErrNil, hrec, recordCount, response,
                   sent, ingested, errsSeen, numSources, fileVars>>

\* mutant of HIngest: recordCount++ is done before the error check
HIngest_CountFailures ==
    /\ hpc = "ingest"
    /\ \E f \in (IF ctxDone THEN {CtxFaults} ELSE Faults) :
        LET out == Ingest(store, index, hrec, f)
        IN  /\ store' = out.store
            /\ index' = out.index
            /\ ingested' = Append(ingested, [rec |-> hrec, err |-> out.err, ctx |-> ctxDone])
            /\ recordCount' = recordCount + 1
            /\ IF out.err # Nil
               THEN /\ hpc' = "returned"
                    /\ response' = Response("ingestError", 0, 0)
               ELSE /\ hpc' = IF hRecNil /\ hErrNil THEN "loop" ELSE "select"
                    /\ UNCHANGED response
    /\ hrec' = NoRecord
    /\ UNCHANGED <<last, allNil, ctxDone, walk, pos, ppc, pval, recClosed, errBuf, errClosed,
                   srcIdx, hRecNil, hErrNil, sent, errsSeen, numSources, fileVars>>

\* the body of the record case: Ingest, return on error, recordCount++, and
\* the check that ends the drain loop
HIngest ==
    /\ hpc = "ingest"
    /\ \E f \in (IF ctxDone THEN {CtxFaults} ELSE Faults) :
        LET out == Ingest(store, index, hrec, f)
        IN  /\ store' = out.store
            /\ index' = out.index
            /\ ingested' = Append(ingested, [rec |-> hrec, err |-> out.err, ctx |-> ctxDone])
            /\ IF out.err # Nil
               THEN /\ hpc' = "returned"
                    /\ response' = Response("ingestError", 0, 0)
                    /\ UNCHANGED recordCount
               ELSE /\ recordCount' = recordCount + 1
                    /\ hpc' = IF hRecNil /\ hErrNil THEN "loop" ELSE "select"
                    /\ UNCHANGED response
    /\ hrec' = NoRecord
    /\ UNCHANGED <<last, allNil, ctxDone, walk, pos, ppc, pval, recClosed, errBuf, errClosed,
                   srcIdx, hRecNil, hErrNil, sent, errsSeen, numSources, fileVars>>

\* case err, ok := <-errChan with ok: return the error
HRecvErr ==
    /\ hpc = "select"
    /\ ~hErrNil
    /\ errBuf # <<>>
    /\ errBuf' = Tail(errBuf)
    /\ errsSeen' = Append(errsSeen, Head(errBuf))
    /\ hpc' = "returned"
    /\ response' = Response("scrapeError", 0, 0)
    /\ UNCHANGED <<store, index, last, allNil, ctxDone, walk, pos, ppc, pval, recClosed,
                   errClosed, srcIdx, hRecNil, hErrNil, hrec, recordCount, sent, ingested,
                   numSources, fileVars>>

\* case err, ok := <-errChan with !ok: errChan = nil; continue
HRecvErrClosed ==
    /\ hpc = "select"
    /\ ~hErrNil
    /\ errBuf = <<>>
    /\ errClosed
    /\ hErrNil' = TRUE
    /\ UNCHANGED <<store, index, last, allNil, ctxDone, walk, pos, ppc, pval, recClosed,
                   errBuf, errClosed, hpc, srcIdx, hRecNil, hrec, recordCount, response,
                   sent, ingested, errsSeen, numSources, fileVars>>

NextScrape ==
    \/ Cancel
    \/ PVisit
    \/ PSendErr
    \/ PSendWalkErr
    \/ PCloseErr
    \/ PCloseRec
    \/ HLoop
    \/ HRecvRecord
    \/ HRecvRecordClosed
    \/ HIngest
    \/ HRecvErr
    \/ HRecvErrClosed

InitPipeline == InitStore /\ InitScrape

SpecScrape == InitPipeline /\ [][NextScrape]_vars

---------------------------------------------------------------------------
(* Claims about the scrape pipeline, checked under SpecScrape.              *)

RECURSIVE FileRecords(_)
\* the records of the file entries of a walk, in walk order
FileRecords(w) ==
    IF w = <<>> THEN <<>>
    ELSE (IF Head(w).kind = "file" THEN <<Head(w).rec>> ELSE <<>>) \o FileRecords(Tail(w))

IngestedRecords == [i \in DOMAIN ingested |-> ingested[i].rec]
NilIngests == Cardinality({i \in DOMAIN ingested : ingested[i].err = Nil})
IsPrefix(a, b) == Len(a) <= Len(b) /\ a = SubSeq(b, 1, Len(a))
NoErrorEntries == \A i \in DOMAIN walk : walk[i].kind \in {"dir", "file"}

\* C7: once Handle has observed both channels closed, it is not waiting in the
\* select again (it leaves the drain loop).
C7_DrainLoopEnds == (hRecNil /\ hErrNil) => hpc # "select"

\* C8: every record whose send completed is passed to Ingest exactly once and
\* in send order (the one just received is the next to be passed); the sent
\* records are the walk's file records in order, all of them once Handle has
\* seen both channels of an error-free, uncancelled source closed; and
\* recordCount, which Handle reports as records_ingested, is the number of
\* Ingest calls that returned nil.
C8_NoDropNoDup ==
    /\ sent = IngestedRecords \o (IF hpc = "ingest" THEN <<hrec>> ELSE <<>>)
    /\ IsPrefix(sent, FileRecords(walk))
    /\ (hRecNil /\ hErrNil /\ NoErrorEntries /\ ~ctxDone) => sent = FileRecords(walk)
    /\ recordCount = NilIngests
    /\ response.kind = "success" => response.records_ingested = NilIngests

C8_Witness ==
    /\ hRecNil
    /\ hErrNil
    /\ NoErrorEntries
    /\ ~ctxDone
    /\ Len(sent) = 2
    /\ recordCount = 2

\* C9: Handle does not return because of a per-file scrape error: after
\* receiving one it is still draining.
C9_ScrapeErrorKeepsDraining ==
    (errsSeen # <<>> /\ errsSeen[Len(errsSeen)] \in {"readErr", "extractErr"})
    => hpc # "returned"

\* C10: Handle does not return because an Ingest failed while the context
\* was not done: it goes on to the remaining records.
C10_FailedIngestKeepsDraining ==
    (ingested # <<>> /\ ingested[Len(ingested)].err # Nil /\ ~ingested[Len(ingested)].ctx)
    => hpc # "returned"

\* one step of the goroutine started by Scrape
ProducerStep == PVisit \/ PSendErr \/ PSendWalkErr \/ PCloseErr \/ PCloseRec

\* the goroutine is not running: Scrape was not called, or both deferred
\* closes have run
ProducerFinished == ppc \in {"idle", "done"}

\* the paths the current walk has finished with
Visited == SubSeq(walk, 1, pos - 1)

\* C11: every run of the goroutine started by Scrape closes both channels,
\* also when the consumer has stopped receiving: once Handle has returned,
\* the goroutine has finished or can still take a step towards its closes
\* (it is never left waiting on a send that nobody receives).
C11_BothChannelsClosed ==
    hpc = "returned" => (ProducerFinished \/ ENABLED ProducerStep)

\* C13: once the context passed to Scrape is done, no further send on the
\* record channel completes, neither for the file being processed nor for a
\* later one.
C13_NoSendAfterCancel == [][ctxDone => sent' = sent]_vars

\* C14: cancellation stops the consumer within a bounded number of steps:
\* while the context is done and Handle has not returned, the pipeline can
\* still take a step (Handle is never left waiting forever on a cancelled
\* scrape).
C14_CancelStopsConsumer == (ctxDone /\ hpc # "returned") => ENABLED NextScrape

RootUnwalkable == Len(walk) >= 1 /\ walk[1].kind = "walkErr"

\* C15: when the root path cannot be walked, the goroutine sends no record
\* (and prepares none), emits exactly one error, the walk error, before
\* closing, is never blocked on the way, and closes both channels.
C15_FatalErrorReportedOnce ==
    (RootUnwalkable /\ srcIdx >= 1) =>
        /\ sent = <<>>
        /\ pval = NoRecord
        /\ ppc \in {"visit", "sendWalkErr", "closeErr", "closeRec", "done"}
        /\ errsSeen \o errBuf =
               (IF ppc \in {"visit", "sendWalkErr"} THEN <<>> ELSE <<"walkErr">>)
        /\ ppc # "done" => ENABLED ProducerStep
        /\ errClosed = (ppc \in {"closeRec", "done"})
        /\ recClosed = (ppc = "done")

\* the goroutine has finished on an unwalkable root and Handle has received
\* its one error
C15_Witness ==
    /\ RootUnwalkable
    /\ ~ctxDone
    /\ ppc = "done"
    /\ recClosed
    /\ errClosed
    /\ errsSeen = <<"walkErr">>
    /\ sent = <<>>

\* C16: the record channel is unbuffered: the goroutine holds at most one
\* record the consumer has not received, the one of the file at pos, and
\* every file before pos that extracted has had its record received; so the
\* next file is not read before the previous record has been received.
C16_Backpressure ==
    srcIdx >= 1 =>
        /\ sent = FileRecords(Visited)
        /\ ppc = "sendRec" => (walk[pos].kind = "file" /\ pval = walk[pos].rec)
        /\ ppc = "sendRec" => ~ENABLED ProducerStep

\* the goroutine waits with the second file's record while Handle is still
\* ingesting the first, and a third file has not been read
C16_Witness ==
    /\ Len(walk) = 3
    /\ \A i \in 1..3 : walk[i].kind = "file"
    /\ pos = 2
    /\ ppc = "sendRec"
    /\ hpc = "ingest"
    /\ sent = <<walk[1].rec>>

---------------------------------------------------------------------------
(* The draining consumer: the Handle that takes a records.Service, logs     *)
(* scrape errors and failed ingests, and goes on receiving until both       *)
(* channels are closed. It runs against the same producer.                  *)

\* RecordService.Ingest: validation, then Store, then Index
ServiceIngest(s, idx, rec, f) ==
    IF rec.ID = "" THEN Outcome(s, idx, <<"record ID is required">>, <<>>)
    ELSE IF rec.Type = "" THEN Outcome(s, idx, <<"record type is required">>, <<>>)
    ELSE IF rec.Content = <<>> THEN Outcome(s, idx, <<"record must have content">>, <<>>)
    ELSE IngestStoreIndex(s, idx, rec, f, <<>>)

FailedIngests == Cardinality({i \in DOMAIN ingested : ingested[i].err # Nil})

\* for _, src := range l.sources: Scrape the next source, or print the totals
\* and exit with status 1 when an ingest failed
DLoop ==
    /\ hpc = "loop"
    /\ IF srcIdx = numSources
       THEN /\ hpc' = "returned"
            /\ response' = Response(IF FailedIngests > 0 THEN "exit1" ELSE "done",
                                    recordCount, numSources)
            /\ UNCHANGED <<srcIdx, pos, ppc, recClosed, errBuf, errClosed, hRecNil, hErrNil>>
       ELSE /\ srcIdx' = srcIdx + 1
            /\ pos' = 1
            /\ ppc' = "visit"
            /\ recClosed' = FALSE
            /\ errBuf' = <<>>
            /\ errClosed' = FALSE
            /\ hRecNil' = FALSE
            /\ hErrNil' = FALSE
            /\ hpc' = "select"
            /\ UNCHANGED response
    /\ UNCHANGED <<store, index, last, allNil, ctxDone, walk, pval, hrec, recordCount,
                   sent, ingested, errsSeen, numSources, fileVars>>

\* case <-ctx.Done(): os.Exit(1); the process ends, and the goroutine with it
DExit ==
    /\ hpc = "select"
    /\ ctxDone
    /\ hpc' = "returned"
    /\ response' = Response("cancelled", 0, 0)
    /\ ppc' = "exited"
    /\ UNCHANGED <<store, index, last, allNil, ctxDone, walk, pos, pval, recClosed, errBuf,
                   errClosed, srcIdx, hRecNil, hErrNil, hrec, recordCount, sent, ingested,
                   errsSeen, numSources, fileVars>>

\* case rec, ok := <-recordChan with ok: the producer's send completes
DRecvRecord ==
    /\ hpc = "select"
    /\ ~hRecNil
    /\ ppc = "sendRec"
    /\ hrec' = pval
    /\ sent' = Append(sent, pval)
    /\ pos' = pos + 1
    /\ ppc' = "visit"
    /\ hpc' = "ingest"
    /\ UNCHANGED <<store, index, last, allNil, ctxDone, walk, pval, recClosed, errBuf,
                   errClosed, srcIdx, hRecNil, hErrNil, recordCount, response, ingested,
                   errsSeen, numSources, fileVars>>

\* case rec, ok := <-recordChan with !ok: recordChan = nil; goto sourceDone
\* when errChan is nil too
DRecvRecordClosed ==
    /\ hpc = "select"
    /\ ~hRecNil
    /\ recClosed
    /\ hRecNil' = TRUE
    /\ hpc' = IF hErrNil THEN "loop" ELSE "select"
    /\ UNCHANGED <<store, index, last, allNil, ctxDone, walk, pos, ppc, pval, recClosed,
                   errBuf, errClosed, srcIdx, hErrNil, hrec, recordCount, response,
                   sent, ingested, errsSeen, numSources, fileVars>>

\* the body of the record case: Ingest; sourceFailed++ or sourceScraped++
DIngest ==
    /\ hpc = "ingest"
    /\ \E st \in (IF ctxDone THEN {TRUE} ELSE BOOLEAN) :
        LET out == ServiceIngest(store, index, hrec, [NoFaults EXCEPT !.store = st])
        IN  /\ store' = out.store
            /\ index' = out.index
            /\ ingested' = Append(ingested, [rec |-> hrec, err |-> out.err, ctx |-> ctxDone])
            /\ recordCount' = IF out.err = Nil THEN recordCount + 1 ELSE recordCount
    /\ hrec' = NoRecord
    /\ hpc' = "select"
    /\ UNCHANGED <<last, allNil, ctxDone, walk, pos, ppc, pval, recClosed, errBuf, errClosed,
                   srcIdx, hRecNil, hErrNil, response, sent, errsSeen, numSources, fileVars>>

\* case err, ok := <-errChan with ok: print the scrape error and go on
DRecvErr ==
    /\ hpc = "select"
    /\ ~hErrNil
    /\ errBuf # <<>>
    /\ errBuf' = Tail(errBuf)
    /\ errsSeen' = Append(errsSeen, Head(errBuf))
    /\ UNCHANGED <<store, index, last, allNil, ctxDone, walk, pos, ppc, pval, recClosed,
                   errClosed, hpc, srcIdx, hRecNil, hErrNil, hrec, recordCount, response,
                   sent, ingested, numSources, fileVars>>

\* case err, ok := <-errChan with !ok: errChan = nil; goto sourceDone when
\* recordChan is nil too
DRecvErrClosed ==
    /\ hpc = "select"
    /\ ~hErrNil
    /\ errBuf = <<>>
    /\ errClosed
    /\ hErrNil' = TRUE
    /\ hpc' = IF hRecNil THEN "loop" ELSE "select"
    /\ UNCHANGED <<store, index, last, allNil, ctxDone, walk, pos, ppc, pval, recClosed,
                   errBuf, errClosed, srcIdx, hRecNil, hrec, recordCount, response,
                   sent, ingested, errsSeen, numSources, fileVars>>

NextDrain ==
    \/ Cancel
    \/ PVisit
    \/ PSendErr
    \/ PSendWalkErr
    \/ PCloseErr
    \/ PCloseRec
    \/ DLoop
    \/ DExit
    \/ DRecvRecord
    \/ DRecvRecordClosed
    \/ DIngest
    \/ DRecvErr
    \/ DRecvErrClosed

SpecDrain == InitPipeline /\ [][NextDrain]_vars

---------------------------------------------------------------------------
(* Claims about the producer with a draining consumer, checked under        *)
(* SpecDrain.                                                               *)

RECURSIVE ErrorKinds(_)
\* the per-file failures of a walk, in walk order
ErrorKinds(w) ==
    IF w = <<>> THEN <<>>
    ELSE (IF Head(w).kind \in {"readErr", "extractErr"} THEN <<Head(w).kind>> ELSE <<>>)
             \o ErrorKinds(Tail(w))

RECURSIVE Rep(_, _)
\* k copies of a sequence: every source walks the same tree
Rep(q, k) == IF k = 0 THEN <<>> ELSE q \o Rep(q, k - 1)

NoWalkErr == \A i \in DOMAIN walk : walk[i].kind # "walkErr"
DrainStep ==
    ProducerStep \/ DLoop \/ DRecvRecord \/ DRecvRecordClosed \/ DIngest \/ DRecvErr
        \/ DRecvErrClosed

\* C12: a file that cannot be read or extracted does not abort the walk. With
\* a draining consumer, no fatal walk error and no cancellation: the records
\* sent are exactly those of the files visited so far that extracted, and
\* the errors emitted (received or still buffered) are exactly one per
\* visited file that failed, in walk order; the pipeline never gets stuck
\* before the walk's end; and when the consumer has seen both channels
\* closed, every file of the walk that extracts has yielded its record and
\* every failing file its one error.
C12_PerFileErrorsDoNotAbort ==
    (srcIdx >= 1 /\ NoWalkErr /\ ~ctxDone) =>
        /\ sent = Rep(FileRecords(walk), srcIdx - 1) \o FileRecords(Visited)
        /\ errsSeen \o errBuf = Rep(ErrorKinds(walk), srcIdx - 1) \o ErrorKinds(Visited)
        /\ hpc # "returned" => ENABLED DrainStep
        /\ (hRecNil /\ hErrNil) =>
              /\ sent = Rep(FileRecords(walk), srcIdx)
              /\ errsSeen = Rep(ErrorKinds(walk), srcIdx)

\* a failing file followed by a file that extracts, drained to the end
C12_Witness ==
    /\ Len(walk) >= 2
    /\ walk[1].kind \in {"readErr", "extractErr"}
    /\ walk[2].kind = "file"
    /\ ~ctxDone
    /\ hRecNil
    /\ hErrNil
    /\ errsSeen = ErrorKinds(walk)
    /\ sent = FileRecords(walk)
    /\ hpc = "returned"

---------------------------------------------------------------------------
(* The storage layer: SQLiteStorage and LocalStorage behind the Storage     *)
(* interface, with records carrying every field of records.Record.          *)

SQLiteStore(s, rec, fault) == SqlStore(s, SqlRow(rec), fault)

SQLiteGet(s, id, fault) ==
    LET g == SqlGet(s, id, fault)
    IN  IF g.err # Nil THEN [rec |-> ZeroRecord, err |-> g.err]
        ELSE [rec |-> SqlScan(g.rec), err |-> Nil]

\* mutant of SQLiteUpdate: a missing row is inserted
SQLiteUpdate_Upsert(s, rec, fault) ==
    IF fault THEN [store |-> s, err |-> <<"failed to update record", "io">>]
    ELSE [store |-> MapPut(s, rec.ID, SqlRow(rec)), err |-> Nil]

\* UPDATE records SET type, content, metadata, updated_at WHERE id; no row
\* affected is reported as not found
SQLiteUpdate(s, rec, fault) ==
    IF fault THEN [store |-> s, err |-> <<"failed to update record", "io">>]
    ELSE IF rec.ID \notin DOMAIN s THEN [store |-> s, err |-> <<"record not found">>]
    ELSE [store |-> [s EXCEPT ![rec.ID] =
                        [@ EXCEPT !.Type = rec.Type, !.Content = rec.Content,
                                  !.Metadata = MarshalMetadata(rec.Metadata),
                                  !.UpdatedAt = rec.UpdatedAt]],
          err |-> Nil]

SQLiteDelete(s, id, fault) == SqlDelete(s, id, fault)

\* mutant of SQLiteList: the WHERE clause is missing
SQLiteList_NoWhere(s, recType, fault) ==
    IF fault THEN {[list |-> <<>>, err |-> <<"failed to list records", "io">>]}
    ELSE {[list |-> [i \in DOMAIN q |-> SqlScan(s[q[i]])], err |-> Nil] :
             q \in {o \in Orderings(DOMAIN s) :
                       \A i, j \in DOMAIN o :
                           i < j => s[o[i]].CreatedAt >= s[o[j]].CreatedAt}}

\* SELECT ... [WHERE type = ?] ORDER BY created_at DESC: every result the
\* statement can produce (rows with equal created_at come in any order)
SQLiteList(s, recType, fault) ==
    IF fault THEN {[list |-> <<>>, err |-> <<"failed to list records", "io">>]}
    ELSE LET rows == {id \in DOMAIN s : recType = "" \/ s[id].Type = recType}
         IN  {[list |-> [i \in DOMAIN q |-> SqlScan(s[q[i]])], err |-> Nil] :
                 q \in {o \in Orderings(rows) :
                           \A i, j \in DOMAIN o :
                               i < j => s[o[i]].CreatedAt >= s[o[j]].CreatedAt}}

\* json.MarshalIndent(rec): the document written to <id>.json
MarshalRecord(rec) ==
    [id |-> rec.ID, type |-> rec.Type, content |-> rec.Content,
     created_at |-> rec.CreatedAt, updated_at |-> rec.UpdatedAt,
     metadata |-> MarshalMetadata(rec.Metadata), tags |-> rec.Tags]

\* LocalStorage.Store: rec.UpdatedAt = time.Now(), write the file, cache rec
LocalStore(c, fs, rec, now, fault) ==
    LET r == [rec EXCEPT !.UpdatedAt = now]
    IN  IF fault THEN [recs |-> c, files |-> fs, err |-> <<"failed to write record", "io">>]
        ELSE [recs |-> MapPut(c, r.ID, r), files |-> MapPut(fs, r.ID, MarshalRecord(r)),
              err |-> Nil]

\* LocalStorage.Get: the cached record
LocalGet(c, id) ==
    IF id \notin DOMAIN c THEN [rec |-> ZeroRecord, err |-> <<"record not found">>]
    ELSE [rec |-> c[id], err |-> Nil]

\* LocalStorage.List: the cached records of the type, in map iteration order
LocalList(c, recType) ==
    LET hits == {id \in DOMAIN c : recType = "" \/ c[id].Type = recType}
    IN  {[list |-> [i \in DOMAIN q |-> c[q[i]]], err |-> Nil] : q \in Orderings(hits)}

\* LocalStorage.Update: not found unless cached; else as Store
LocalUpdate(c, fs, rec, now, fault) ==
    IF rec.ID \notin DOMAIN c
    THEN [recs |-> c, files |-> fs, err |-> <<"record not found">>]
    ELSE LocalStore(c, fs, rec, now, fault)

\* LocalStorage.Delete: not found unless cached; remove the file, then the
\* cache entry
LocalDelete(c, fs, id, fault) ==
    IF id \notin DOMAIN c THEN [recs |-> c, files |-> fs, err |-> <<"record not found">>]
    ELSE IF fault THEN [recs |-> c, files |-> fs, err |-> <<"failed to delete record", "io">>]
    ELSE [recs |-> MapDel(c, id), files |-> MapDel(fs, id), err |-> Nil]

\* RecordIngestor.Ingest over a SQLiteStorage, for records carrying every
\* field: Get; if the record exists Delete it from the storage and from the
\* vector storage; then Store and Index
IngestRecord(s, idx, rec, f) ==
    LET found == SQLiteGet(s, rec.ID, f.get).err = Nil
        del == IF found THEN SQLiteDelete(s, rec.ID, f.del) ELSE [store |-> s, err |-> Nil]
        vd == IF found /\ del.err = Nil THEN VecDelete(idx, rec.ID)
              ELSE [index |-> idx, err |-> Nil]
        st == SQLiteStore(del.store, rec, f.store)
        ix == VecIndex(vd.index, rec)
    IN  IF del.err # Nil
        THEN [store |-> del.store, index |-> idx,
              err |-> <<"failed to delete existing record from storage">> \o del.err]
        ELSE IF vd.err # Nil
        THEN [store |-> del.store, index |-> vd.index,
              err |-> <<"failed to delete existing record from vector store">> \o vd.err]
        ELSE IF st.err # Nil
        THEN [store |-> st.store, index |-> vd.index,
              err |-> <<"failed to store record">> \o st.err]
        ELSE IF ix.err # Nil
        THEN [store |-> st.store, index |-> ix.index,
              err |-> <<"failed to index record">> \o ix.err]
        ELSE [store |-> st.store, index |-> ix.index, err |-> Nil]

Backends == {"sqlite", "local"}

\* the rows or cached records of the backend in use, and what its Get
\* returns for an id
Stored == IF backend = "sqlite" THEN store ELSE recs
GetOf(st, id) == IF backend = "sqlite" THEN SQLiteGet(st, id, FALSE) ELSE LocalGet(st, id)

\* history of the storage calls: the last call with its arguments, error and
\* results, the backend's state before it, the ids ever stored, the ids
\* deleted and not stored again, and per id the created_at with which it was
\* first stored (a Store or Ingest of an id that was not stored)
StorageCall(op, rec, id, recType, fault, err, got, list, stored, deleted) ==
    [op |-> op, rec |-> rec, id |-> id, type |-> recType, fault |-> fault, err |-> err,
     got |-> got, list |-> list, pre |-> Stored, stored |-> stored, deleted |-> deleted,
     created |-> IF err = Nil /\ op \in {"Store", "Ingest"} /\ id \notin DOMAIN Stored
                 THEN MapPut(last.created, id, rec.CreatedAt)
                 ELSE last.created]

InitStorage ==
    /\ store = EmptyMap
    /\ index = EmptyMap
    /\ allNil = TRUE
    /\ recs = EmptyMap
    /\ files = EmptyMap
    /\ backend \in Backends
    /\ vectorNil = FALSE
    /\ inflight = <<>>
    /\ last = [op |-> "none", rec |-> ZeroRecord, id |-> "-", type |-> "", fault |-> FALSE,
               err |-> Nil, got |-> ZeroRecord, list |-> <<>>, pre |-> EmptyMap,
               stored |-> {}, deleted |-> {}, created |-> EmptyMap]
    /\ InitIdle

\* a caller invokes Store(rec)
DoStore ==
    \E rec \in StorageRecords, now \in Times, fault \in BOOLEAN :
        LET out == IF backend = "sqlite"
                   THEN [recs |-> recs, files |-> files] @@ SQLiteStore(store, rec, fault)
                   ELSE [store |-> store] @@ LocalStore(recs, files, rec, now, fault)
        IN  /\ backend = "sqlite" => now = rec.UpdatedAt
            /\ store' = out.store
            /\ recs' = out.recs
            /\ files' = out.files
            /\ last' = StorageCall("Store", rec, rec.ID, "", fault, out.err, ZeroRecord, <<>>,
                                   IF out.err = Nil THEN last.stored \cup {rec.ID}
                                   ELSE last.stored,
                                   IF out.err = Nil THEN last.deleted \ {rec.ID}
                                   ELSE last.deleted)
            /\ UNCHANGED <<index, allNil, backend, vectorNil, inflight, scrapeVars>>

\* a caller invokes Get(id)
DoGet ==
    \E id \in StorageIds, fault \in BOOLEAN :
        LET out == IF backend = "sqlite" THEN SQLiteGet(store, id, fault)
                   ELSE LocalGet(recs, id)
        IN  /\ backend = "local" => ~fault
            /\ last' = StorageCall("Get", ZeroRecord, id, "", fault, out.err, out.rec, <<>>,
                                   last.stored, last.deleted)
            /\ UNCHANGED <<store, index, allNil, fileVars, scrapeVars>>

\* a caller invokes List(recType)
DoList ==
    \E recType \in Types, fault \in BOOLEAN :
        \E out \in (IF backend = "sqlite" THEN SQLiteList(store, recType, fault)
                    ELSE LocalList(recs, recType)) :
            /\ backend = "local" => ~fault
            /\ last' = StorageCall("List", ZeroRecord, "-", recType, fault, out.err,
                                   ZeroRecord, out.list, last.stored, last.deleted)
            /\ UNCHANGED <<store, index, allNil, fileVars, scrapeVars>>

\* a caller invokes Update(rec)
DoUpdate ==
    \E rec \in StorageRecords, now \in Times, fault \in BOOLEAN :
        LET out == IF backend = "sqlite"
                   THEN [recs |-> recs, files |-> files] @@ SQLiteUpdate(store, rec, fault)
                   ELSE [store |-> store] @@ LocalUpdate(recs, files, rec, now, fault)
        IN  /\ backend = "sqlite" => now = rec.UpdatedAt
            /\ store' = out.store
            /\ recs' = out.recs
            /\ files' = out.files
            /\ last' = StorageCall("Update", rec, rec.ID, "", fault, out.err, ZeroRecord,
                                   <<>>, last.stored, last.deleted)
            /\ UNCHANGED <<index, allNil, backend, vectorNil, inflight, scrapeVars>>

\* a caller invokes Delete(id)
DoStorageDelete ==
    \E id \in StorageIds, fault \in BOOLEAN :
        LET out == IF backend = "sqlite"
                   THEN [recs |-> recs, files |-> files] @@ SQLiteDelete(store, id, fault)
                   ELSE [store |-> store] @@ LocalDelete(recs, files, id, fault)
        IN  /\ store' = out.store
            /\ recs' = out.recs
            /\ files' = out.files
            /\ last' = StorageCall("Delete", ZeroRecord, id, "", fault, out.err, ZeroRecord,
                                   <<>>, last.stored,
                                   IF out.err = Nil THEN last.deleted \cup {id}
                                   ELSE last.deleted)
            /\ UNCHANGED <<index, allNil, backend, vectorNil, inflight, scrapeVars>>

\* a caller invokes RecordIngestor.Ingest(rec) on the SQLite storage and the
\* vector storage, as cmd/assistant wires them
DoIngestRecord ==
    \E rec \in StorageRecords, f \in Faults :
        LET out == IngestRecord(store, index, rec, f)
        IN  /\ backend = "sqlite"
            /\ store' = out.store
            /\ index' = out.index
            /\ last' = StorageCall("Ingest", rec, rec.ID, "", f # NoFaults, out.err,
                                   ZeroRecord, <<>>,
                                   IF out.err = Nil THEN last.stored \cup {rec.ID}
                                   ELSE last.stored,
                                   IF out.err = Nil THEN last.deleted \ {rec.ID}
                                   ELSE last.deleted)
            /\ UNCHANGED <<allNil, fileVars, scrapeVars>>

NextStorage ==
    DoStore \/ DoGet \/ DoList \/ DoUpdate \/ DoStorageDelete \/ DoIngestRecord

SpecStorage == InitStorage /\ [][NextStorage]_vars

---------------------------------------------------------------------------
(* The two backends side by side: every call goes to a SQLiteStorage and to *)
(* a LocalStorage that both started empty, and no statement or file         *)
(* operation fails.                                                         *)

\* one call with what each backend returned
BothCall(op, rec, id, recType, sq, lo) ==
    [op |-> op, rec |-> rec, id |-> id, type |-> recType, sqlite |-> sq, local |-> lo]
Returned(err, got, list) == [err |-> err, got |-> got, list |-> list]

InitBoth ==
    /\ store = EmptyMap
    /\ index = EmptyMap
    /\ allNil = TRUE
    /\ recs = EmptyMap
    /\ files = EmptyMap
    /\ backend = "both"
    /\ vectorNil = FALSE
    /\ inflight = <<>>
    /\ last = BothCall("none", ZeroRecord, "-", "", Returned(Nil, ZeroRecord, <<>>),
                       Returned(Nil, ZeroRecord, <<>>))
    /\ InitIdle

BothStore ==
    \E rec \in StorageRecords, now \in Times :
        LET sq == SQLiteStore(store, rec, FALSE)
            lo == LocalStore(recs, files, rec, now, FALSE)
        IN  /\ store' = sq.store
            /\ recs' = lo.recs
            /\ files' = lo.files
            /\ last' = BothCall("Store", rec, rec.ID, "", Returned(sq.err, ZeroRecord, <<>>),
                                Returned(lo.err, ZeroRecord, <<>>))
            /\ UNCHANGED <<index, allNil, backend, vectorNil, inflight, scrapeVars>>

BothGet ==
    \E id \in StorageIds :
        LET sq == SQLiteGet(store, id, FALSE)
            lo == LocalGet(recs, id)
        IN  /\ last' = BothCall("Get", ZeroRecord, id, "", Returned(sq.err, sq.rec, <<>>),
                                Returned(lo.err, lo.rec, <<>>))
            /\ UNCHANGED <<store, index, allNil, fileVars, scrapeVars>>

BothList ==
    \E recType \in Types :
        \E sq \in SQLiteList(store, recType, FALSE), lo \in LocalList(recs, recType) :
            /\ last' = BothCall("List", ZeroRecord, "-", recType,
                                Returned(sq.err, ZeroRecord, sq.list),
                                Returned(lo.err, ZeroRecord, lo.list))
            /\ UNCHANGED <<store, index, allNil, fileVars, scrapeVars>>

BothUpdate ==
    \E rec \in StorageRecords, now \in Times :
        LET sq == SQLiteUpdate(store, rec, FALSE)
            lo == LocalUpdate(recs, files, rec, now, FALSE)
        IN  /\ store' = sq.store
            /\ recs' = lo.recs
            /\ files' = lo.files
            /\ last' = BothCall("Update", rec, rec.ID, "", Returned(sq.err, ZeroRecord, <<>>),
                                Returned(lo.err, ZeroRecord, <<>>))
            /\ UNCHANGED <<index, allNil, backend, vectorNil, inflight, scrapeVars>>

BothDelete ==
    \E id \in StorageIds :
        LET sq == SQLiteDelete(store, id, FALSE)
            lo == LocalDelete(recs, files, id, FALSE)
        IN  /\ store' = sq.store
            /\ recs' = lo.recs
            /\ files' = lo.files
            /\ last' = BothCall("Delete", ZeroRecord, id, "", Returned(sq.err, ZeroRecord, <<>>),
                                Returned(lo.err, ZeroRecord, <<>>))
            /\ UNCHANGED <<index, allNil, backend, vectorNil, inflight, scrapeVars>>

NextBoth == BothStore \/ BothGet \/ BothList \/ BothUpdate \/ BothDelete

SpecBoth == InitBoth /\ [][NextBoth]_vars

---------------------------------------------------------------------------
(* Claims about the storage layer, checked under SpecStorage.               *)

LastOk(op) == last.op = op /\ last.err = Nil
ExceptUpdatedAt(rec) == [rec EXCEPT !.UpdatedAt = 0]

\* C17: on SQLiteStorage, after Store(r) of a record with a non-empty id that
\* was not stored has returned nil, Get(r.id) returns a record equal to r in
\* id, type, content, metadata, tags and created_at.
C17_StoreGetRoundTrip ==
    (backend = "sqlite" /\ LastOk("Store") /\ last.rec.ID # ""
        /\ last.rec.ID \notin DOMAIN last.pre) =>
        LET g == SQLiteGet(store, last.rec.ID, FALSE)
        IN  g.err = Nil /\ ExceptUpdatedAt(g.rec) = ExceptUpdatedAt(last.rec)

NotFound == <<"record not found">>
\* never stored, or deleted and not stored again
Absent(id) == id \notin last.stored \/ id \in last.deleted

\* C18: Get(id) returns a not-found error for every id that was never
\* stored, and for every id whose last successful Store has been followed by
\* a successful Delete, until it is stored again: in every state a Get of
\* such an id would report not found, and a Get that was made of one did
\* (unless the statement itself failed).
C18_GetReportsAbsence ==
    /\ \A id \in StorageIds : Absent(id) => GetOf(Stored, id).err = NotFound
    /\ (last.op = "Get" /\ ~last.fault /\ Absent(last.id)) =>
           (last.err = NotFound /\ last.got = ZeroRecord)

\* a Get of a deleted id reported not found
C18_Witness ==
    /\ last.op = "Get"
    /\ last.id \in last.deleted
    /\ last.err = NotFound

\* C19: Update(r) and Delete(id) on an id that is not stored return an error,
\* the not-found error when the statement executes, and leave the store as
\* it was; in particular Update creates neither the record nor its file.
C19_NoImplicitUpsert ==
    (last.op \in {"Update", "Delete"} /\ last.id \notin DOMAIN last.pre) =>
        /\ last.err # Nil
        /\ (backend = "local" \/ ~last.fault) => last.err = NotFound
        /\ Stored = last.pre
        /\ last.id \notin DOMAIN Stored
        /\ last.id \notin DOMAIN files

\* an Update of an id that is not stored, in a store holding another record
C19_Witness ==
    /\ last.op = "Update"
    /\ last.id \notin DOMAIN last.pre
    /\ last.pre # EmptyMap
    /\ last.err = NotFound

\* the ids of the records stored before the last call whose type recType
\* selects
OfType(recType) == {id \in DOMAIN last.pre : recType = "" \/ last.pre[id].Type = recType}

\* C20: in every state reached by Store, Update and Delete calls, a List that
\* executes returns each stored record selected by its type argument once,
\* as Get returns it, and nothing else: for a non-empty type the records of
\* that type, for the empty type every stored record.
C20_ListFilter ==
    last.op = "List" =>
        /\ ~last.fault => last.err = Nil
        /\ last.err = Nil =>
              /\ Len(last.list) = Cardinality(OfType(last.type))
              /\ {last.list[i].ID : i \in DOMAIN last.list} = OfType(last.type)
              /\ \A i \in DOMAIN last.list :
                     /\ last.list[i] = GetOf(last.pre, last.list[i].ID).rec
                     /\ last.type # "" => last.list[i].Type = last.type
        /\ Stored = last.pre

\* List("receipt") returned one of two stored records, a record that was
\* stored as a tax record and updated to a receipt
C20_Witness ==
    /\ backend = "sqlite"
    /\ LastOk("List")
    /\ last.type = "receipt"
    /\ Len(last.list) = 1
    /\ Cardinality(DOMAIN last.pre) = 2
    /\ last.list[1].CreatedAt = MaxTime

\* C21: SQLiteStorage.Store(r) for an id that is already stored returns nil
\* and replaces the stored record: a following Get(r.id) returns r's type,
\* content and metadata.
C21_StoreOverwrites ==
    (backend = "sqlite" /\ last.op = "Store" /\ ~last.fault
        /\ last.id \in DOMAIN last.pre) =>
        /\ last.err = Nil
        /\ LET g == SQLiteGet(store, last.id, FALSE)
           IN  /\ g.err = Nil
               /\ g.rec.Type = last.rec.Type
               /\ g.rec.Content = last.rec.Content
               /\ g.rec.Metadata = UnmarshalMetadata(MarshalMetadata(last.rec.Metadata))

\* C22: created_at is fixed at the first store: on SQLiteStorage, for every
\* stored id, Get returns the created_at with which the id was first stored,
\* whatever successful Update and RecordIngestor.Ingest calls came later.
C22_CreatedAtFixed ==
    backend = "sqlite" =>
        \A id \in DOMAIN store :
            id \in DOMAIN last.created =>
                SQLiteGet(store, id, FALSE).rec.CreatedAt = last.created[id]

\* the records of a list, updated_at and order aside
ListedSet(list) == {ExceptUpdatedAt(list[i]) : i \in DOMAIN list}

\* C23: side by side from empty and on the same calls, SQLiteStorage and
\* LocalStorage agree on every call: both return nil or both return an
\* error, a Get returns the same record from both, and a List the same set
\* of records, updated_at aside.
C23_BackendsAgree ==
    backend = "both" =>
        /\ (last.sqlite.err = Nil) <=> (last.local.err = Nil)
        /\ ExceptUpdatedAt(last.sqlite.got) = ExceptUpdatedAt(last.local.got)
        /\ ListedSet(last.sqlite.list) = ListedSet(last.local.list)

---------------------------------------------------------------------------
(* The vector storage called one call at a time: Index, Delete and Search   *)
(* of LocalVectorStorage on the embeddings map.                             *)

MaxLimit == 3
Limits == -1..MaxLimit
VectorIds == {"", "r1", "r2", "r3"}

\* history of the vector storage calls: the last call with its arguments,
\* error and results, the embeddings before it, the ids whose last
\* successful call was a Delete, and the ids ever indexed
VectorCall(op, rec, id, query, limit, err, results, deleted) ==
    [op |-> op, rec |-> rec, id |-> id, query |-> query, limit |-> limit, err |-> err,
     results |-> results, pre |-> index, deleted |-> deleted,
     indexed |-> IF op = "Index" /\ err = Nil THEN last.indexed \cup {id} ELSE last.indexed]

InitVector ==
    /\ store = EmptyMap
    /\ index = EmptyMap
    /\ allNil = TRUE
    /\ recs = EmptyMap
    /\ files = EmptyMap
    /\ backend = "none"
    /\ vectorNil = FALSE
    /\ inflight = <<>>
    /\ last = [op |-> "none", rec |-> NoRecord, id |-> "-", query |-> <<>>, limit |-> 0,
               err |-> Nil, results |-> <<>>, pre |-> EmptyMap, deleted |-> {},
               indexed |-> {}]
    /\ InitIdle

\* a caller invokes Index(rec)
DoIndex ==
    \E rec \in VectorRecords :
        LET out == VecIndex(index, rec)
        IN  /\ index' = out.index
            /\ last' = VectorCall("Index", rec, rec.ID, <<>>, 0, out.err, <<>>,
                                  IF out.err = Nil THEN last.deleted \ {rec.ID}
                                  ELSE last.deleted)
            /\ UNCHANGED <<store, allNil, fileVars, scrapeVars>>

\* a caller invokes Delete(recID)
DoVecDelete ==
    \E id \in VectorIds :
        LET out == VecDelete(index, id)
        IN  /\ index' = out.index
            /\ last' = VectorCall("Delete", NoRecord, id, <<>>, 0, out.err, <<>>,
                                  IF out.err = Nil THEN last.deleted \cup {id}
                                  ELSE last.deleted)
            /\ UNCHANGED <<store, allNil, fileVars, scrapeVars>>

\* a caller invokes Search(query, limit)
DoSearch ==
    \E query \in Queries, limit \in Limits :
        \E results \in Search(index, query, limit) :
            /\ last' = VectorCall("Search", NoRecord, "-", query, limit, Nil, results,
                                  last.deleted)
            /\ UNCHANGED <<store, index, allNil, fileVars, scrapeVars>>

NextVector == DoIndex \/ DoVecDelete \/ DoSearch

SpecVector == InitVector /\ [][NextVector]_vars

---------------------------------------------------------------------------
(* RecordService over a Storage and a vector storage that may be nil, and    *)
(* the keyword search of LocalStorage it falls back to.                      *)

\* fmt.Sprint(value) of a filter value
Sprint(v) == IF v.t = "string" THEN v.s ELSE ToString(v.n)

\* matchesFilters of the service package: the key "type" against the record
\* type, every other key against the metadata map
matchesFilters(rec, filters) ==
    \A key \in DOMAIN filters :
        IF key = "type" THEN rec.Type = Sprint(filters[key])
        ELSE /\ ~rec.Metadata.isNil
             /\ key \in DOMAIN rec.Metadata.kv
             /\ rec.Metadata.kv[key] = filters[key]

\* applyFilters
applyFilters(results, filters) ==
    IF DOMAIN filters = {} THEN results
    ELSE SelectSeq(results, LAMBDA result : matchesFilters(result.Record, filters))

\* matchesTypeFilter and matchesTagFilter of the storage package: a value that
\* is not a string passes
matchesTypeFilter(rec, value) == value.t # "string" \/ rec.Type = value.s
matchesTagFilter(rec, value) ==
    value.t # "string" \/ \E i \in DOMAIN rec.Tags : rec.Tags[i] = value.s

\* matchesFilters of the storage package: the keys "type" and "tag"; no other
\* key is looked at
storageMatchesFilters(rec, filters) ==
    \A key \in DOMAIN filters :
        /\ key = "type" => matchesTypeFilter(rec, filters[key])
        /\ key = "tag" => matchesTagFilter(rec, filters[key])

\* strings.Contains(s, substr)
Contains(s, substr) ==
    \E i \in 0..(Len(s) - Len(substr)) : SubSeq(s, i + 1, i + Len(substr)) = substr

\* calculateSearchScore, in tenths: 0.5 for the title, 0.3 for the
\* description, 0.2 for the content; the records have neither title nor
\* description, which are then the empty string. Kept as num / sqrt(den2).
calculateSearchScore(rec, queryLower) ==
    [num |-> (IF Contains(<<>>, queryLower) THEN 5 ELSE 0)
                 + (IF Contains(<<>>, queryLower) THEN 3 ELSE 0)
                 + (IF Contains(ToLower(rec.Content), queryLower) THEN 2 ELSE 0),
     den2 |-> 100]

\* LocalStorage.Search, the loop over the cache in the order the range visits it
RECURSIVE KeywordScored(_, _, _, _)
KeywordScored(c, query, filters, order) ==
    IF order = <<>> THEN <<>>
    ELSE LET rec == c[Head(order)]
             score == calculateSearchScore(rec, ToLower(query))
             rest == KeywordScored(c, query, filters, Tail(order))
         IN  IF storageMatchesFilters(rec, filters) /\ score.num > 0
             THEN <<[Record |-> rec, Score |-> score]>> \o rest
             ELSE rest

\* LocalStorage.Search: the result lists it can return
LocalSearch(c, query, filters, limit) ==
    {ApplyLimit(BubbleSort(KeywordScored(c, query, filters, order), 0), limit) :
        order \in Orderings(DOMAIN c)}

\* what a call of the service leaves and returns; panic: the call did not
\* return, the goroutine panicked (a caller such as net/http recovers and
\* goes on calling the service)
ServiceOutcome(s, c, fs, idx, err, panic) ==
    [store |-> s, recs |-> c, files |-> fs, index |-> idx, err |-> err, panic |-> panic]
NilDereference == <<"panic", "invalid memory address or nil pointer dereference">>

\* s.storage.Store, Update and Delete on the storage the service was built with
StorageStore(s, c, fs, rec) ==
    IF backend = "sqlite" THEN [recs |-> c, files |-> fs] @@ SQLiteStore(s, rec, FALSE)
    ELSE [store |-> s] @@ LocalStore(c, fs, rec, rec.UpdatedAt, FALSE)
StorageUpdate(s, c, fs, rec) ==
    IF backend = "sqlite" THEN [recs |-> c, files |-> fs] @@ SQLiteUpdate(s, rec, FALSE)
    ELSE [store |-> s] @@ LocalUpdate(c, fs, rec, rec.UpdatedAt, FALSE)
StorageDelete(s, c, fs, id) ==
    IF backend = "sqlite" THEN [recs |-> c, files |-> fs] @@ SQLiteDelete(s, id, FALSE)
    ELSE [store |-> s] @@ LocalDelete(c, fs, id, FALSE)

\* RecordService.Ingest
RecordServiceIngest(s, c, fs, idx, record) ==
    IF record.ID = "" THEN ServiceOutcome(s, c, fs, idx, <<"record ID is required">>, FALSE)
    ELSE IF record.Type = ""
    THEN ServiceOutcome(s, c, fs, idx, <<"record type is required">>, FALSE)
    ELSE IF record.Content = <<>>
    THEN ServiceOutcome(s, c, fs, idx, <<"record must have content">>, FALSE)
    ELSE LET rec == WithMetadata(record)
             st == StorageStore(s, c, fs, rec)
         IN  IF st.err # Nil
             THEN ServiceOutcome(st.store, st.recs, st.files, idx,
                                 <<"failed to store record">> \o st.err, FALSE)
             ELSE IF vectorNil
             THEN ServiceOutcome(st.store, st.recs, st.files, idx, NilDereference, TRUE)
             ELSE LET ix == VecIndex(idx, rec)
                  IN  ServiceOutcome(st.store, st.recs, st.files, ix.index,
                                     IF ix.err # Nil
                                     THEN <<"failed to index record">> \o ix.err ELSE Nil,
                                     FALSE)

\* RecordService.Update
RecordServiceUpdate(s, c, fs, idx, rec) ==
    IF rec.ID = "" THEN ServiceOutcome(s, c, fs, idx, <<"record ID is required">>, FALSE)
    ELSE LET up == StorageUpdate(s, c, fs, rec)
         IN  IF up.err # Nil
             THEN ServiceOutcome(up.store, up.recs, up.files, idx,
                                 <<"failed to update record">> \o up.err, FALSE)
             ELSE IF vectorNil
             THEN ServiceOutcome(up.store, up.recs, up.files, idx, Nil, FALSE)
             ELSE LET ix == VecIndex(idx, rec)
                  IN  ServiceOutcome(up.store, up.recs, up.files, ix.index,
                                     IF ix.err # Nil
                                     THEN <<"failed to reindex record">> \o ix.err ELSE Nil,
                                     FALSE)

\* RecordService.Delete
RecordServiceDelete(s, c, fs, idx, id) ==
    LET del == StorageDelete(s, c, fs, id)
    IN  IF del.err # Nil
        THEN ServiceOutcome(del.store, del.recs, del.files, idx,
                            <<"failed to delete record">> \o del.err, FALSE)
        ELSE IF vectorNil
        THEN ServiceOutcome(del.store, del.recs, del.files, idx, Nil, FALSE)
        ELSE LET vd == VecDelete(idx, id)
             IN  ServiceOutcome(del.store, del.recs, del.files, vd.index,
                                IF vd.err # Nil
                                THEN <<"failed to delete from vector store">> \o vd.err
                                ELSE Nil,
                                FALSE)

\* RecordService.Search: the vector storage's Search with the limit, then the
\* filters; without vector storage the Search of the storage if it has one
RecordServiceSearch(c, idx, query, filters, limit) ==
    IF ~vectorNil
    THEN {[results |-> IF DOMAIN filters # {} THEN applyFilters(results, filters)
                       ELSE results,
           err |-> Nil] : results \in Search(idx, query, limit)}
    ELSE IF backend = "local"
    THEN {[results |-> results, err |-> Nil] :
             results \in LocalSearch(c, query, filters, limit)}
    ELSE {[results |-> <<>>,
           err |-> <<"search not supported by current storage implementation">>]}

\* the filter maps callers pass to Search
Filters ==
    {EmptyMap,
     "type" :> GoString("receipt"),
     "type" :> GoString("tax"),
     "tag" :> GoString("tag1"),
     "test_key" :> GoString("test_value"),
     "number" :> GoInt(42),
     ("type" :> GoString("receipt")) @@ ("test_key" :> GoString("test_value"))}
ServiceLimits == {0, 1}

\* history of the service calls: the last call with its arguments, error and
\* results, and the stored records and the embeddings before it
ServiceCall(op, rec, id, query, filters, limit, err, panic, results) ==
    [op |-> op, rec |-> rec, id |-> id, query |-> query, filters |-> filters,
     limit |-> limit, err |-> err, panic |-> panic, results |-> results,
     pre |-> Stored, preIndex |-> index]

InitService ==
    /\ store = EmptyMap
    /\ index = EmptyMap
    /\ allNil = TRUE
    /\ recs = EmptyMap
    /\ files = EmptyMap
    /\ backend \in Backends
    /\ vectorNil \in BOOLEAN
    /\ inflight = <<>>
    /\ last = [op |-> "none", rec |-> ZeroRecord, id |-> "-", query |-> <<>>,
               filters |-> EmptyMap, limit |-> 0, err |-> Nil, panic |-> FALSE,
               results |-> <<>>, pre |-> EmptyMap, preIndex |-> EmptyMap]
    /\ InitIdle

\* a caller invokes RecordService.Ingest(rec)
SvcIngest ==
    \E rec \in StorageRecords :
        LET out == RecordServiceIngest(store, recs, files, index, rec)
        IN  /\ store' = out.store
            /\ recs' = out.recs
            /\ files' = out.files
            /\ index' = out.index
            /\ last' = ServiceCall("Ingest", rec, rec.ID, <<>>, EmptyMap, 0, out.err,
                                   out.panic, <<>>)
            /\ UNCHANGED <<allNil, backend, vectorNil, inflight, scrapeVars>>

\* a caller invokes RecordService.Update(rec)
SvcUpdate ==
    \E rec \in StorageRecords :
        LET out == RecordServiceUpdate(store, recs, files, index, rec)
        IN  /\ store' = out.store
            /\ recs' = out.recs
            /\ files' = out.files
            /\ index' = out.index
            /\ last' = ServiceCall("Update", rec, rec.ID, <<>>, EmptyMap, 0, out.err,
                                   out.panic, <<>>)
            /\ UNCHANGED <<allNil, backend, vectorNil, inflight, scrapeVars>>

\* a caller invokes RecordService.Delete(id)
SvcDelete ==
    \E id \in StorageIds :
        LET out == RecordServiceDelete(store, recs, files, index, id)
        IN  /\ store' = out.store
            /\ recs' = out.recs
            /\ files' = out.files
            /\ index' = out.index
            /\ last' = ServiceCall("Delete", ZeroRecord, id, <<>>, EmptyMap, 0, out.err,
                                   out.panic, <<>>)
            /\ UNCHANGED <<allNil, backend, vectorNil, inflight, scrapeVars>>

\* a caller invokes RecordService.Search(query, filters, limit)
SvcSearch ==
    \E query \in ServiceQueries, filters \in Filters, limit \in ServiceLimits :
        \E out \in RecordServiceSearch(recs, index, query, filters, limit) :
            /\ last' = ServiceCall("Search", ZeroRecord, "-", query, filters, limit,
                                   out.err, FALSE, out.results)
            /\ UNCHANGED <<store, index, allNil, fileVars, scrapeVars>>

NextService == SvcIngest \/ SvcUpdate \/ SvcDelete \/ SvcSearch

SpecService == InitService /\ [][NextService]_vars

---------------------------------------------------------------------------
(* Claims about the vector storage, checked under SpecVector.               *)

\* C24: Index of a record whose id is empty returns an error and leaves the
\* embeddings as they were.
C24_IndexRejectsEmptyId ==
    (last.op = "Index" /\ last.rec.ID = "") =>
        (last.err # Nil /\ index = last.pre)

\* an Index with an empty id was refused by a storage that holds embeddings
C24_Witness ==
    /\ last.op = "Index"
    /\ last.rec.ID = ""
    /\ last.err # Nil
    /\ last.pre # EmptyMap

\* the results of a list whose record has the id
ResultsOf(results, id) == {i \in DOMAIN results : results[i].Record.ID = id}

\* C25: Index for an id that already has an embedding returns nil and
\* replaces it: the other ids keep their embeddings, and every Search
\* returns the id at most once, with the newly indexed record, and exactly
\* when the new record's vector scores above zero against the query.
C25_IndexReplaces ==
    (last.op = "Index" /\ last.id \in DOMAIN last.pre) =>
        /\ last.err = Nil
        /\ DOMAIN index = DOMAIN last.pre
        /\ \A other \in DOMAIN last.pre \ {last.id} : index[other] = last.pre[other]
        /\ \A query \in Queries, limit \in Limits :
               \A results \in Search(index, query, limit) :
                   LET mine == ResultsOf(results, last.id)
                   IN  /\ Cardinality(mine) <= 1
                       /\ \A i \in mine : results[i].Record = last.rec
                       /\ limit <= 0 =>
                              ((mine # {}) <=>
                                  (SimilarityTable[query][NewEmbedding(last.rec).Vector].num
                                      > 0))

\* an Index replaced an embedding with one of another content, beside the
\* embedding of another id
C25_Witness ==
    /\ last.op = "Index"
    /\ last.err = Nil
    /\ last.id \in DOMAIN last.pre
    /\ last.pre[last.id].Record.Content # last.rec.Content
    /\ Cardinality(DOMAIN index) >= 2

\* C26: Delete of an id that has no embedding returns an error and leaves
\* the embeddings as they were.
C26_DeleteMissingFails ==
    (last.op = "Delete" /\ last.id \notin DOMAIN last.pre) =>
        (last.err # Nil /\ index = last.pre)

\* a Delete of an id without embedding was refused by a storage holding
\* embeddings of other ids
C26_Witness ==
    /\ last.op = "Delete"
    /\ last.id \notin DOMAIN last.pre
    /\ last.id # ""
    /\ last.pre # EmptyMap
    /\ last.err # Nil

\* a result list without the results of an id
Without(results, id) == SelectSeq(results, LAMBDA r : r.Record.ID # id)

\* C27: an id whose last successful call was a Delete is in no Search result,
\* for any query and limit; and a successful Delete leaves the results of the
\* other ids as they were: the unlimited Search results after it are those
\* before it with the deleted id's result taken out.
C27_DeletedNeverReturned ==
    /\ \A id \in last.deleted :
           \A query \in Queries, limit \in Limits :
               \A results \in Search(index, query, limit) : ResultsOf(results, id) = {}
    /\ (last.op = "Delete" /\ last.err = Nil) =>
           \A query \in Queries :
               Search(index, query, 0)
                   = {Without(results, last.id) : results \in Search(last.pre, query, 0)}

\* a Delete removed an id that a query returned, beside another id that the
\* same query returns
C27_Witness ==
    /\ last.op = "Delete"
    /\ last.err = Nil
    /\ \E query \in Queries :
           /\ \E results \in Search(last.pre, query, 0) : ResultsOf(results, last.id) # {}
           /\ \E results \in Search(index, query, 0) : results # <<>>

\* the ids of the results of a list, and whether the list is in order of
\* non-increasing score
ResultIds(results) == {results[i].Record.ID : i \in DOMAIN results}
Descending(results) ==
    \A i, j \in DOMAIN results : i < j => ~ScoreLess(results[i].Score, results[j].Score)
\* the ids whose indexed content has a term that is a term of the query
SharesTerm(idx, query) ==
    {id \in DOMAIN idx : DOMAIN idx[id].Terms \cap DOMAIN extractTerms(query) # {}}

IdRank == [id \in VectorIds |-> CASE id = "" -> 0 [] id = "r1" -> 1 [] id = "r2" -> 2
                                  [] OTHER -> 3]

\* C29: Search is deterministic: for the embeddings, query and limit of a
\* call, the list returned is the only one Search can return, and results of
\* equal score are in ascending order of record id.
C29_DeterministicTieBreak ==
    last.op = "Search" =>
        /\ Search(last.pre, last.query, last.limit) = {last.results}
        /\ \A i, j \in DOMAIN last.results :
               (i < j /\ ~ScoreLess(last.results[j].Score, last.results[i].Score)) =>
                   IdRank[last.results[i].Record.ID] < IdRank[last.results[j].Record.ID]

\* the smaller of two numbers
Min(a, b) == IF a < b THEN a ELSE b

\* C30: with a limit <= 0 Search returns every result with a score above
\* zero; with a limit > 0 it returns the first min(limit, n) results of a
\* fully sorted list of the n results with a score above zero, never more
\* than limit.
C30_LimitSemantics ==
    last.op = "Search" =>
        LET n == Cardinality(SearchHits(last.pre, last.query))
            sorted == Search(last.pre, last.query, 0)
        IN  /\ last.limit <= 0 => (Len(last.results) = n /\ last.results \in sorted)
            /\ last.limit > 0 =>
                   /\ Len(last.results) = Min(last.limit, n)
                   /\ Len(last.results) <= last.limit
                   /\ \E full \in sorted :
                          last.results = SubSeq(full, 1, Min(last.limit, n))

\* a Search with limit 2 returned two of three results with a score above zero
C30_Witness ==
    /\ last.op = "Search"
    /\ last.limit = 2
    /\ Len(last.results) = 2
    /\ Cardinality(SearchHits(last.pre, last.query)) = 3

\* C31: a Search on a storage without embedding, because no id was ever
\* indexed or because every id that was indexed has been deleted since,
\* returns the empty list and no error, for every query and limit.
C31_SearchEmptyIndex ==
    /\ (last.op = "Search" /\ last.indexed \subseteq last.deleted) =>
           (last.err = Nil /\ last.results = <<>>)
    /\ last.indexed \subseteq last.deleted =>
           \A query \in Queries, limit \in Limits : Search(index, query, limit) = {<<>>}

\* a Search on a storage whose two embeddings have both been deleted
C31_Witness ==
    /\ last.op = "Search"
    /\ Cardinality(last.indexed) >= 2
    /\ last.indexed \subseteq last.deleted
    /\ last.results = <<>>

\* a text none of whose words is longer than two characters
Degenerate(text) ==
    LET words == FieldsFunc(ToLower(text))
    IN  \A i \in DOMAIN words : Len(words[i]) <= 2
ZeroVector == [i \in 0..(vectorSize - 1) |-> 0]

\* C32: a text without a word longer than two characters, the empty text
\* included, embeds to the all-zero vector; the similarity of the zero
\* vector with every vector is 0; an embedding of such a content is in no
\* Search result; and a Search with such a query returns the empty list
\* whatever is indexed.
C32_DegenerateText ==
    /\ \A id \in DOMAIN index :
           /\ cosineSimilarity(ZeroVector, index[id].Vector).num = 0
           /\ cosineSimilarity(index[id].Vector, ZeroVector).num = 0
           /\ Degenerate(index[id].Record.Content) =>
                  /\ index[id].Vector = ZeroVector
                  /\ \A query \in Queries, limit \in Limits :
                         \A results \in Search(index, query, limit) :
                             ResultsOf(results, id) = {}
    /\ \A query \in Queries :
           Degenerate(query) =>
               /\ QueryVectorTable[query] = ZeroVector
               /\ \A limit \in Limits : Search(index, query, limit) = {<<>>}
    /\ (last.op = "Search" /\ Degenerate(last.query)) => last.results = <<>>

\* a Search for "to" on a storage that holds a content with the word "to" and
\* a content of this word alone returned nothing
C32_Witness ==
    /\ last.op = "Search"
    /\ last.query = WordTo
    /\ \E id \in DOMAIN last.pre : last.pre[id].Record.Content = TxtToCat
    /\ \E id \in DOMAIN last.pre : last.pre[id].Record.Content = WordTo
    /\ last.results = <<>>

\* a lowercase letter a-z or a digit 0-9
TokenChar(r) == (r >= 97 /\ r <= 122) \/ (r >= 48 /\ r <= 57)
\* the texts the vector storage has tokenized: the indexed contents and the
\* query of the last Search
Tokenized ==
    {index[id].Record.Content : id \in DOMAIN index}
        \cup (IF last.op = "Search" THEN {last.query} ELSE {})

\* C33: in every text the tokenizer has split, after lower-casing, a
\* character separates words exactly if it is neither a lowercase letter nor
\* a digit, so every letter and every digit of the text is part of a word:
\* no word ends before a digit that follows it.
C33_TokenizerSeparators ==
    \A text \in Tokenized :
        LET lower == ToLower(text)
            words == FieldsFunc(lower)
        IN  /\ \A i \in DOMAIN lower : isSeparator(lower[i]) <=> ~TokenChar(lower[i])
            /\ \A i \in DOMAIN words : \A k \in DOMAIN words[i] : TokenChar(words[i][k])
            /\ \A i \in DOMAIN lower :
                   (i > 1 /\ TokenChar(lower[i - 1]) /\ TokenChar(lower[i])) =>
                       \E w \in DOMAIN words :
                           \E k \in 1..(Len(words[w]) - 1) :
                               words[w][k] = lower[i - 1] /\ words[w][k + 1] = lower[i]

---------------------------------------------------------------------------
(* Claims about RecordService, checked under SpecService.                    *)

\* the ranked lists of the records that score above zero for the query of
\* the last Search and pass its filters, before any limit
RankedFiltered ==
    IF ~vectorNil
    THEN {applyFilters(results, last.filters) :
             results \in Search(last.preIndex, last.query, 0)}
    ELSE LocalSearch(last.pre, last.query, last.filters, 0)

\* C34: RecordService.Search with a limit > 0 returns the first min(limit, m)
\* elements of a ranked list of the m records that score above zero for the
\* query and pass the filters.
C34_LimitAfterFilters ==
    (last.op = "Search" /\ last.err = Nil /\ last.limit > 0) =>
        \E ranked \in RankedFiltered :
            last.results = SubSeq(ranked, 1, Min(last.limit, Len(ranked)))

\* a record passes a filter map as the filters are specified: every entry
\* must pass; "type" is the record's type, "tag" a member of its tags, any
\* other key a metadata entry holding exactly the value
PassesEntry(rec, key, value) ==
    IF key = "type" THEN value.t = "string" /\ rec.Type = value.s
    ELSE IF key = "tag"
    THEN value.t = "string" /\ \E i \in DOMAIN rec.Tags : rec.Tags[i] = value.s
    ELSE ~rec.Metadata.isNil /\ key \in DOMAIN rec.Metadata.kv
             /\ rec.Metadata.kv[key] = value
Passes(rec, filters) == \A key \in DOMAIN filters : PassesEntry(rec, key, filters[key])

\* the records that score above zero for the query of the last Search,
\* whatever the filters
ScoringRecords ==
    IF ~vectorNil
    THEN {e.Record : e \in {last.preIndex[id] : id \in SearchHits(last.preIndex, last.query)}}
    ELSE UNION {{results[i].Record : i \in DOMAIN results} :
                   results \in LocalSearch(last.pre, last.query, EmptyMap, 0)}

\* C35: the records an unlimited Search returns are those scoring above zero
\* that pass every entry of the filter map, on the vector path of
\* RecordService.Search and on the keyword path of LocalStorage.Search.
C35_FilterSemantics ==
    (last.op = "Search" /\ last.err = Nil /\ last.limit = 0) =>
        {last.results[i].Record : i \in DOMAIN last.results}
            = {rec \in ScoringRecords : Passes(rec, last.filters)}

\* the record is one RecordService.Ingest accepts
Valid(rec) == rec.ID # "" /\ rec.Type # "" /\ rec.Content # <<>>

\* C36: a RecordService built with a nil vector storage does not crash and
\* does not fail for want of it: Ingest of a valid record that the storage
\* accepts returns nil and stores it, Update and Delete of a stored id return
\* nil, none of them touches an index, and Search returns what the keyword
\* search of the storage returns.
C36_NilVectorStorage ==
    vectorNil =>
        /\ ~last.panic
        /\ index = EmptyMap
        /\ (last.op = "Ingest" /\ Valid(last.rec) /\ last.id \notin DOMAIN last.pre) =>
               (last.err = Nil /\ last.id \in DOMAIN Stored)
        /\ (last.op \in {"Update", "Delete"} /\ last.id \in DOMAIN last.pre) =>
               last.err = Nil
        /\ last.op = "Search" =>
               /\ last.err = Nil
               /\ last.results
                      \in LocalSearch(last.pre, last.query, last.filters, last.limit)

---------------------------------------------------------------------------
(* Two callers of RecordIngestor.Ingest at the same time. The ingestor holds *)
(* no lock: each call of the storage (one SQL statement) and of the vector   *)
(* storage (under its mutex) is one step, and the steps of the two callers   *)
(* interleave. No statement fails for a reason of its own.                   *)

Callers == {1, 2}
\* the records the callers ingest: all have the id "r1"
SameIdRecords == {rec \in Records : rec.ID = "r1"}
Idle == [pc |-> "idle", rec |-> NoRecord, err |-> Nil]
\* the caller returns err; the caller goes on to its next statement
Returns(p, err) == [inflight EXCEPT ![p].pc = "idle", ![p].err = err]
Goes(p, pc) == [inflight EXCEPT ![p].pc = pc]

InitConcurrent ==
    /\ store = EmptyMap
    /\ index = EmptyMap
    /\ last = NoCall
    /\ allNil = TRUE
    /\ recs = EmptyMap
    /\ files = EmptyMap
    /\ backend = "sqlite"
    /\ vectorNil = FALSE
    /\ inflight = [p \in Callers |-> Idle]
    /\ InitIdle

\* caller p invokes Ingest(record)
CCall(p) ==
    \E record \in SameIdRecords :
        /\ inflight[p].pc = "idle"
        /\ inflight' = [inflight EXCEPT ![p] = [pc |-> "get", rec |-> record, err |-> Nil]]
        /\ UNCHANGED <<storeVars, recs, files, backend, vectorNil, scrapeVars>>

\* s.storage.Get: "Check if record exists"
CGet(p) ==
    /\ inflight[p].pc = "get"
    /\ inflight' = Goes(p, IF SqlGet(store, inflight[p].rec.ID, FALSE).err = Nil
                           THEN "delete" ELSE "store")
    /\ UNCHANGED <<storeVars, recs, files, backend, vectorNil, scrapeVars>>

\* s.storage.Delete of the existing record
CDelete(p) ==
    LET del == SqlDelete(store, inflight[p].rec.ID, FALSE)
    IN  /\ inflight[p].pc = "delete"
        /\ store' = del.store
        /\ inflight' = IF del.err # Nil
                       THEN Returns(p, <<"failed to delete existing record from storage">>
                                           \o del.err)
                       ELSE Goes(p, "vecDelete")
        /\ UNCHANGED <<index, last, allNil, recs, files, backend, vectorNil, scrapeVars>>

\* s.vectorStorage.Delete of the existing record
CVecDelete(p) ==
    LET vd == VecDelete(index, inflight[p].rec.ID)
    IN  /\ inflight[p].pc = "vecDelete"
        /\ index' = vd.index
        /\ inflight' = IF vd.err # Nil
                       THEN Returns(p, <<"failed to delete existing record from vector store">>
                                           \o vd.err)
                       ELSE Goes(p, "store")
        /\ UNCHANGED <<store, last, allNil, recs, files, backend, vectorNil, scrapeVars>>

\* s.storage.Store
CStore(p) ==
    LET st == SqlStore(store, inflight[p].rec, FALSE)
    IN  /\ inflight[p].pc = "store"
        /\ store' = st.store
        /\ inflight' = IF st.err # Nil
                       THEN Returns(p, <<"failed to store record">> \o st.err)
                       ELSE Goes(p, "index")
        /\ UNCHANGED <<index, last, allNil, recs, files, backend, vectorNil, scrapeVars>>

\* s.vectorStorage.Index, and the return
CIndex(p) ==
    LET ix == VecIndex(index, inflight[p].rec)
    IN  /\ inflight[p].pc = "index"
        /\ index' = ix.index
        /\ inflight' = Returns(p, IF ix.err # Nil
                                  THEN <<"failed to index record">> \o ix.err ELSE Nil)
        /\ UNCHANGED <<store, last, allNil, recs, files, backend, vectorNil, scrapeVars>>

NextConcurrent ==
    \E p \in Callers :
        CCall(p) \/ CGet(p) \/ CDelete(p) \/ CVecDelete(p) \/ CStore(p) \/ CIndex(p)

SpecConcurrent == InitConcurrent /\ [][NextConcurrent]_vars

---------------------------------------------------------------------------
(* LocalStorage with the records passed and returned as *records.Record.     *)
(* recs[id] is the Record object the cache points to and files[id] the       *)
(* content of <id>.json. The caller keeps the pointers it passed to Store    *)
(* and received from Get and List: last.held are the ids whose cached object *)
(* the caller points to. last.committed are the records as the successful    *)
(* Store, Update and Delete calls left them.                                 *)

\* os.WriteFile opens the file with O_CREATE|O_TRUNC and then writes: it
\* fails before the file is touched ("open") or after it was truncated and
\* partly written ("write"); Truncated is what the file then holds
WriteFaults == {"none", "open", "write"}
Truncated == [truncated |-> TRUE]

\* LocalStorage.Store(rec): rec.UpdatedAt = time.Now() is written through
\* the pointer (into the cached object when rec aliases it), then the file,
\* then ls.recs[rec.ID] = rec
StorePointer(c, fs, rec, now, fault, alias) ==
    LET r == [rec EXCEPT !.UpdatedAt = now]
        touched == IF alias THEN MapPut(c, r.ID, r) ELSE c
    IN  IF fault = "open"
        THEN [recs |-> touched, files |-> fs, err |-> <<"failed to write record", "io">>]
        ELSE IF fault = "write"
        THEN [recs |-> touched, files |-> MapPut(fs, r.ID, Truncated),
              err |-> <<"failed to write record", "io">>]
        ELSE [recs |-> MapPut(c, r.ID, r), files |-> MapPut(fs, r.ID, MarshalRecord(r)),
              err |-> Nil]

\* LocalStorage.Update(rec): not found unless cached; else as Store
UpdatePointer(c, fs, rec, now, fault, alias) ==
    IF rec.ID \notin DOMAIN c
    THEN [recs |-> c, files |-> fs, err |-> <<"record not found">>]
    ELSE StorePointer(c, fs, rec, now, fault, alias)

\* json.Unmarshal(data, &rec) of a document MarshalIndent wrote
UnmarshalRecord(doc) ==
    FullRec(doc.id, doc.type, doc.content, doc.created_at, doc.updated_at,
            UnmarshalMetadata(doc.metadata), doc.tags)

\* NewLocalStorage on the directory: loadRecords reads every <id>.json and
\* fails on the first that does not unmarshal
loadRecords(fs) ==
    IF \E id \in DOMAIN fs : fs[id] = Truncated
    THEN [recs |-> EmptyMap, err |-> <<"failed to load existing records", "unmarshal">>]
    ELSE [recs |-> [id \in DOMAIN fs |-> UnmarshalRecord(fs[id])], err |-> Nil]

LocalCall(op, id, fault, err, held, committed, loaded) ==
    [op |-> op, id |-> id, fault |-> fault, err |-> err, pre |-> recs, held |-> held,
     committed |-> committed, loaded |-> loaded]

InitLocal ==
    /\ store = EmptyMap
    /\ index = EmptyMap
    /\ allNil = TRUE
    /\ recs = EmptyMap
    /\ files = EmptyMap
    /\ backend = "local"
    /\ vectorNil = FALSE
    /\ inflight = <<>>
    /\ last = [op |-> "none", id |-> "-", fault |-> "none", err |-> Nil, pre |-> EmptyMap,
               held |-> {}, committed |-> EmptyMap, loaded |-> EmptyMap]
    /\ InitIdle

\* the new records callers store: the two records with the id "r1"
LocalRecords == {r \in StorageRecords : r.ID = "r1"}

\* the records a caller can pass: a new Record object, or (alias) the cached
\* object of an id it holds a pointer to
PointerArgs ==
    {[rec |-> r, alias |-> FALSE] : r \in LocalRecords}
        \cup {[rec |-> recs[id], alias |-> TRUE] : id \in last.held \cap DOMAIN recs}

\* a caller invokes Store(rec)
LStore ==
    \E arg \in PointerArgs, now \in Times, fault \in WriteFaults :
        LET out == StorePointer(recs, files, arg.rec, now, fault, arg.alias)
            ok == out.err = Nil
        IN  /\ recs' = out.recs
            /\ files' = out.files
            /\ last' = LocalCall("Store", arg.rec.ID, fault, out.err,
                                 IF ok THEN last.held \cup {arg.rec.ID} ELSE last.held,
                                 IF ok THEN MapPut(last.committed, arg.rec.ID, out.recs[arg.rec.ID])
                                 ELSE last.committed,
                                 EmptyMap)
            /\ UNCHANGED <<store, index, allNil, backend, vectorNil, inflight, scrapeVars>>

\* a caller invokes Update(rec)
LUpdate ==
    \E arg \in PointerArgs, now \in Times, fault \in WriteFaults :
        LET out == UpdatePointer(recs, files, arg.rec, now, fault, arg.alias)
            ok == out.err = Nil
        IN  /\ recs' = out.recs
            /\ files' = out.files
            /\ last' = LocalCall("Update", arg.rec.ID,
                                 IF arg.rec.ID \in DOMAIN recs THEN fault ELSE "none", out.err,
                                 IF ok THEN last.held \cup {arg.rec.ID} ELSE last.held,
                                 IF ok THEN MapPut(last.committed, arg.rec.ID, out.recs[arg.rec.ID])
                                 ELSE last.committed,
                                 EmptyMap)
            /\ UNCHANGED <<store, index, allNil, backend, vectorNil, inflight, scrapeVars>>

\* a caller invokes Delete(id); os.Remove can fail
LDelete ==
    \E id \in StorageIds, fault \in BOOLEAN :
        LET out == LocalDelete(recs, files, id, fault)
            ok == out.err = Nil
        IN  /\ recs' = out.recs
            /\ files' = out.files
            /\ last' = LocalCall("Delete", id,
                                 IF fault /\ id \in DOMAIN recs THEN "remove" ELSE "none",
                                 out.err,
                                 IF ok THEN last.held \ {id} ELSE last.held,
                                 IF ok THEN MapDel(last.committed, id) ELSE last.committed,
                                 EmptyMap)
            /\ UNCHANGED <<store, index, allNil, backend, vectorNil, inflight, scrapeVars>>

\* a caller invokes Get(id) and keeps the pointer it receives
LGet ==
    \E id \in StorageIds :
        LET out == LocalGet(recs, id)
        IN  /\ last' = LocalCall("Get", id, "none", out.err,
                                 IF out.err = Nil THEN last.held \cup {id} ELSE last.held,
                                 last.committed, EmptyMap)
            /\ UNCHANGED <<store, index, allNil, recs, files, backend, vectorNil, inflight,
                           scrapeVars>>

\* a caller invokes List(recType) and keeps the pointers it receives
LList ==
    \E recType \in Types :
        /\ last' = LocalCall("List", "-", "none", Nil,
                             last.held \cup {id \in DOMAIN recs :
                                                recType = "" \/ recs[id].Type = recType},
                             last.committed, EmptyMap)
        /\ UNCHANGED <<store, index, allNil, recs, files, backend, vectorNil, inflight,
                       scrapeVars>>

\* the caller assigns rec.Content through a pointer it holds
CallerWrites ==
    \E id \in last.held \cap DOMAIN recs :
        /\ recs[id].Content # WordCat
        /\ recs' = [recs EXCEPT ![id].Content = WordCat]
        /\ last' = LocalCall("CallerWrites", id, "none", Nil, last.held, last.committed,
                             EmptyMap)
        /\ UNCHANGED <<store, index, allNil, files, backend, vectorNil, inflight, scrapeVars>>

\* NewLocalStorage on the same directory: when it succeeds the program goes
\* on with the new LocalStorage, whose cached objects no caller points to
LOpen ==
    LET out == loadRecords(files)
    IN  /\ recs' = IF out.err = Nil THEN out.recs ELSE recs
        /\ last' = LocalCall("Open", "-", "none", out.err,
                             IF out.err = Nil THEN {} ELSE last.held, last.committed,
                             out.recs)
        /\ UNCHANGED <<store, index, allNil, files, backend, vectorNil, inflight, scrapeVars>>

NextLocal == LStore \/ LUpdate \/ LDelete \/ LGet \/ LList \/ CallerWrites \/ LOpen

SpecLocal == InitLocal /\ [][NextLocal]_vars

---------------------------------------------------------------------------
(* Further claims about the ingestor, checked under Spec.                    *)

\* C37: an Ingest that returns an error does not lose the record stored
\* before it: if the id was stored before the call, Get still finds a record
\* with that id after it.
C37_FailedUpsertKeepsRecord ==
    (last.op = "Ingest" /\ last.err # Nil /\ last.id \in DOMAIN last.preStore) =>
        SqlGet(store, last.id, FALSE).err = Nil

\* C38: when the concurrent Ingest calls for one id have all returned, the
\* id is stored exactly if it has an embedding, and the embedding is that of
\* the stored record.
C38_ConcurrentUpsertsConsistent ==
    (inflight # <<>> /\ \A p \in Callers : inflight[p].pc = "idle") =>
        /\ DOMAIN store = DOMAIN index
        /\ \A id \in DOMAIN store : index[id].Record = store[id]

---------------------------------------------------------------------------
(* Claims about the file-backed store, checked under SpecLocal. *)

\* C39: after every Store, Update or Delete the cached ids are the ids with a
\* file; a call whose disk write or remove fails returns an error and leaves
\* the cache unchanged; a LocalStorage opened on the directory loads exactly
\* the committed records.
C39_PersistBeforeSuccess ==
    /\ last.op \in {"Store", "Update", "Delete"} => DOMAIN recs = DOMAIN files
    /\ (last.op \in {"Store", "Update", "Delete"} /\ last.fault # "none") =>
           (last.err # Nil /\ recs = last.pre)
    /\ last.op = "Open" => (last.err = Nil /\ last.loaded = last.committed)

\* C40: what Get returns changes only by a successful Store, Update or
\* Delete (or by opening the store anew): no write of the caller through a
\* record it passed or received, and no failed call, changes it.
C40_OnlyOperationsChangeState ==
    (last.op \in {"Get", "List", "CallerWrites"}
        \/ (last.op \in {"Store", "Update", "Delete"} /\ last.err # Nil)) =>
        recs = last.pre

====

